---- MODULE Spec2Model ----
(***************************************************************************)
(* Willie loop (src/src/willie/loop.py): the task store, the task          *)
(* selector, the agent runner with its retry policy and the loop           *)
(* controller, as state machines.                                          *)
(*                                                                         *)
(*   SpecSelect  get_next_task over bounded task snapshots                 *)
(*   SpecStore   read_tasks and write_tasks over the characters of the     *)
(*               live file                                                 *)
(*   SpecRetry   run_claude_with_retry over the agent's outcomes           *)
(*   SpecRetryLive  SpecRetry where no run and no sleep lasts for ever     *)
(*   SpecDetect  detect_error_type over the diagnostic texts               *)
(*   SpecFiles   write_tasks, create_bootstrap_task and read_tasks, step   *)
(*               by step, in two processes over one directory              *)
(*   SpecRun     run_claude waiting for the agent's subprocess             *)
(*   Spec        main: the loop controller with the agent, the user and    *)
(*               git around it                                             *)
(*   SpecLive    Spec where main and the agent go on                       *)
(*   SpecCrash   Spec where the process may die at any point and main is   *)
(*               started again on the files it left                        *)
(*   SpecConsole the console reader thread and main around                 *)
(*               get_console_input, statement by statement                 *)
(*   SpecArchive archive_task_tree over bounded live stores                *)
(***************************************************************************)
EXTENDS Integers, Sequences, FiniteSets, TLC

VARIABLES
    snap,       \* SpecSelect: the task snapshot handed to get_next_task
    sel,        \* SpecSelect: what get_next_task returned for snap
    text,       \* SpecStore: the characters of the live file tasks.jsonl
    textLines,  \* SpecStore: the lines the live file was made of, each with its kind
    mem,        \* SpecStore: the task list last handed to write_tasks
    loaded,     \* SpecStore: what read_tasks returned, or that it raised
    disk,       \* SpecFiles: the files (inodes), the two paths and the flocks
    writer,     \* SpecFiles: the process in write_tasks or create_bootstrap_task
    reader,     \* SpecFiles: the process in read_tasks
    run,        \* SpecRun: run_claude, its subprocess and the time it has waited
    con,        \* SpecConsole: console_lock, the console queue, the reader
                \* thread and main in get_console_input
    rpc,        \* run_claude_with_retry: "idle" (not called), "run" (about to
                \* call run_claude), "sleep" (in time.sleep), "ret" (returned)
    prompt,     \* run_claude_with_retry: its parameter
    attempt,    \* run_claude_with_retry: index into API_RETRY_DELAYS + [0]
    exit_code,  \* run_claude_with_retry: exit code of the last run_claude,
                \* and main's exit_code in the task loop
    error_type, \* run_claude_with_retry: error type of the last run_claude,
                \* and main's error_type in the task loop
    stderr,     \* run_claude: the diagnostic text captured from the agent
    sleepFor,   \* run_claude_with_retry: seconds of the sleep in progress
    agentPrompt,\* the prompt of the agent run of the call in progress
    pc,         \* main: "poll", "claim", "branch", "iterate", "call",
                \* "finalize" or "stopped"
    tasksFile,  \* .willie/tasks.jsonl: the records read_tasks returns
    junk,       \* .willie/tasks.jsonl holds a line that read_tasks skips
    doneFile,   \* .willie/tasks-done.jsonl: the records appended
    iterations, \* main: local variable iterations
    task_done,  \* main: local variable task_done
    head,       \* git: the commit at the head of the base branch
    branches,   \* git: the task branches that exist, by task id
    checkedOut, \* git: the branch checked out
    stopFile,   \* whether the file .stop exists
    console,    \* main: parameter console
    daemon,     \* main: parameter daemon
    console_quit,           \* global console_quit
    console_input_queue,    \* global console_input_queue
    inbox,      \* inbox.txt: the messages in it
    ideaDefined,            \* whether idea.md is filled in
    waiting_logged,         \* main: local variable waiting_logged
    surfaced,   \* history: token_limit has been returned to main
    answer,     \* history: what the agent replied to the completion check main
                \* last came back from, until main goes on from its next poll
    incidents   \* history: how often the user or a failure came in the way

selVars == <<snap, sel>>
fileVars == <<disk, writer, reader>>
storeVars == <<text, textLines, mem, loaded, fileVars, run, con>>
retryVars == <<rpc, prompt, attempt, exit_code, error_type, stderr, sleepFor, agentPrompt>>
gitVars == <<head, branches, checkedOut>>
userVars == <<stopFile, console_quit, console_input_queue, inbox>>
ctlVars == <<pc, tasksFile, junk, doneFile, iterations, task_done, gitVars, userVars,
             console, daemon, ideaDefined, waiting_logged, surfaced, answer, incidents>>
vars == <<selVars, storeVars, retryVars, ctlVars>>

(***************************************************************************)
(* Strings are sequences of one-character strings, so that startswith and  *)
(* count work on characters as in Python.                                  *)
(***************************************************************************)
startswith(s, prefix) ==
    /\ Len(prefix) <= Len(s)
    /\ SubSeq(s, 1, Len(prefix)) = prefix

count(s, ch) == Cardinality({i \in 1..Len(s) : s[i] = ch})

\* TaskStatus
PENDING == "pending"
ACTIVE == "active"
COMPLETE == "complete"
SPLIT == "split"
VALID == {PENDING, ACTIVE, COMPLETE, SPLIT}

\* Task ids of the model: dotted strings, character by character.
Id0 == <<"0">>
Id1 == <<"1">>
Id1_1 == <<"1", ".", "1">>
Id1_2 == <<"1", ".", "2">>
Id1_1_1 == <<"1", ".", "1", ".", "1">>
Id10 == <<"1", "0">>

\* None of Python, as a mode and as a task
None == "None"
NoTask == [id |-> <<>>, title |-> None, status |-> None]

(***************************************************************************)
(* Task selector                                                           *)
(***************************************************************************)
\* The mutant of get_children: every descendant counts as a child.
get_children_anydepth(tasks, parent_id) ==
    SelectSeq(tasks, LAMBDA t : startswith(t.id, parent_id \o <<".">>))

get_children(tasks, parent_id) ==
    SelectSeq(tasks, LAMBDA t :
        /\ startswith(t.id, parent_id \o <<".">>)
        /\ count(t.id, ".") = count(parent_id, ".") + 1)

\* The mutant of all_complete: any() in the place of all().
all_complete_any(children) ==
    \E i \in 1..Len(children) : children[i].status = COMPLETE

\* all(c.get('status') == COMPLETE for c in children)
all_complete(children) ==
    \A i \in 1..Len(children) : children[i].status = COMPLETE

\* The least index in the set S of indices, 0 when S is empty: the position
\* at which a "for task in tasks: if ...: return task" loop returns, S being
\* the positions that pass its test.
first_index(S) ==
    IF S = {} THEN 0 ELSE CHOOSE i \in S : \A j \in S : i <= j

\* The positions of tasks with the given status
with_status(tasks, status) == {i \in 1..Len(tasks) : tasks[i].status = status}

\* The mutant of verify_ready: "children and" is left out, so that all() over
\* no children is true.
verify_ready_vacuous(tasks, task) ==
    /\ task.status = SPLIT
    /\ all_complete(get_children(tasks, task.id))

\* if task.get('status') == SPLIT: children = ...; if children and all(...)
verify_ready(tasks, task) ==
    /\ task.status = SPLIT
    /\ LET children == get_children(tasks, task.id)
       IN  Len(children) > 0 /\ all_complete(children)

ready_positions(tasks) == {i \in 1..Len(tasks) : verify_ready(tasks, tasks[i])}

\* The mutant of get_next_task: pending tasks are looked for before active ones.
get_next_task_pending_first(tasks) ==
    LET a == first_index(with_status(tasks, ACTIVE))
        p == first_index(with_status(tasks, PENDING))
        s == first_index(ready_positions(tasks))
    IN  IF p > 0 THEN [index |-> p, task |-> tasks[p], mode |-> "work"]
        ELSE IF a > 0 THEN [index |-> a, task |-> tasks[a], mode |-> "work"]
        ELSE IF s > 0 THEN [index |-> s, task |-> tasks[s], mode |-> "verify"]
        ELSE [index |-> 0, task |-> NoTask, mode |-> None]

\* The mutant of get_next_task: an active task whose children are all
\* complete is resumed in the mode it was claimed in, verify.
get_next_task_resuming_verify(tasks) ==
    LET a == first_index(with_status(tasks, ACTIVE))
        p == first_index(with_status(tasks, PENDING))
        s == first_index(ready_positions(tasks))
    IN  IF a > 0
        THEN [index |-> a, task |-> tasks[a],
              mode |-> IF verify_ready(tasks, [tasks[a] EXCEPT !.status = SPLIT])
                       THEN "verify" ELSE "work"]
        ELSE IF p > 0 THEN [index |-> p, task |-> tasks[p], mode |-> "work"]
        ELSE IF s > 0 THEN [index |-> s, task |-> tasks[s], mode |-> "verify"]
        ELSE [index |-> 0, task |-> NoTask, mode |-> None]

\* The mutant of get_next_task: a complete task is picked up when nothing
\* else is to do.
get_next_task_finishing_complete(tasks) ==
    LET a == first_index(with_status(tasks, ACTIVE))
        p == first_index(with_status(tasks, PENDING))
        s == first_index(ready_positions(tasks))
        c == first_index(with_status(tasks, COMPLETE))
    IN  IF a > 0 THEN [index |-> a, task |-> tasks[a], mode |-> "work"]
        ELSE IF p > 0 THEN [index |-> p, task |-> tasks[p], mode |-> "work"]
        ELSE IF s > 0 THEN [index |-> s, task |-> tasks[s], mode |-> "verify"]
        ELSE IF c > 0 THEN [index |-> c, task |-> tasks[c], mode |-> "work"]
        ELSE [index |-> 0, task |-> NoTask, mode |-> None]

\* Returns the task, its mode and the task's position in tasks (Python
\* returns the list's own element); index 0 stands for (None, None).
get_next_task(tasks) ==
    LET a == first_index(with_status(tasks, ACTIVE))
        p == first_index(with_status(tasks, PENDING))
        s == first_index(ready_positions(tasks))
    IN  IF a > 0 THEN [index |-> a, task |-> tasks[a], mode |-> "work"]
        ELSE IF p > 0 THEN [index |-> p, task |-> tasks[p], mode |-> "work"]
        ELSE IF s > 0 THEN [index |-> s, task |-> tasks[s], mode |-> "verify"]
        ELSE [index |-> 0, task |-> NoTask, mode |-> None]

(***************************************************************************)
(* JSON text.  A Python str is a sequence of characters; a character is a  *)
(* one-character string, except that each word of the program (a key such  *)
(* as id, a status such as pending) is kept as one character.  A Python    *)
(* value is [str |-> chars], [int |-> digit], [list |-> <<>>] or           *)
(* [dict |-> pairs], pairs being the <<key, value>> items in insertion     *)
(* order.                                                                  *)
(***************************************************************************)
QUOTE == "\""
BSL == "\\"
NL == "\n"
SP == " "
Digits == {"0", "1", "2", "5"}

Str(chars) == [str |-> chars]
IsStr(v) == "str" \in DOMAIN v
IsDict(v) == "dict" \in DOMAIN v
IsList(v) == "list" \in DOMAIN v

\* The mutant of escape: the characters are written as they are.
escape_raw(chars) == chars

\* json.dumps of the characters of a str: the escapes of ", \ and newline
RECURSIVE escape(_)
escape(chars) ==
    IF chars = <<>> THEN <<>>
    ELSE LET c == Head(chars)
             e == IF c = QUOTE THEN <<BSL, QUOTE>>
                  ELSE IF c = BSL THEN <<BSL, BSL>>
                  ELSE IF c = NL THEN <<BSL, "n">>
                  ELSE <<c>>
         IN  e \o escape(Tail(chars))

json_dumps_str(chars) == <<QUOTE>> \o escape(chars) \o <<QUOTE>>

\* json.dumps of a value that is a str, an int or an empty list
json_dumps_atom(v) ==
    IF IsStr(v) THEN json_dumps_str(v.str)
    ELSE IF IsList(v) THEN <<"[", "]">>
    ELSE <<v.int>>

\* The items of a dict, joined by ", "
RECURSIVE json_dumps_items(_)
json_dumps_items(pairs) ==
    IF pairs = <<>> THEN <<>>
    ELSE LET item == json_dumps_str(pairs[1][1]) \o <<":", SP>>
                        \o json_dumps_atom(pairs[1][2])
         IN  IF Len(pairs) = 1 THEN item
             ELSE item \o <<",", SP>> \o json_dumps_items(Tail(pairs))

\* json.dumps(task)
json_dumps(task) == <<"{">> \o json_dumps_items(task.dict) \o <<"}">>

\* What a parse step returns: the value and the position after it, or failure
\* (json.JSONDecodeError).
Fail == [ok |-> FALSE]
Parsed(v, next) == [ok |-> TRUE, val |-> v, next |-> next]

RECURSIVE skip_ws(_, _)
skip_ws(s, i) ==
    IF i <= Len(s) /\ s[i] \in {SP, NL} THEN skip_ws(s, i + 1) ELSE i

\* The characters of a JSON string from position i, after its opening quote
RECURSIVE scan_string(_, _, _)
scan_string(s, i, acc) ==
    IF i > Len(s) THEN Fail
    ELSE IF s[i] = QUOTE THEN Parsed(Str(acc), i + 1)
    ELSE IF s[i] = BSL THEN
        IF i + 1 > Len(s) THEN Fail
        ELSE IF s[i + 1] = QUOTE THEN scan_string(s, i + 2, Append(acc, QUOTE))
        ELSE IF s[i + 1] = BSL THEN scan_string(s, i + 2, Append(acc, BSL))
        ELSE IF s[i + 1] = "n" THEN scan_string(s, i + 2, Append(acc, NL))
        ELSE Fail
    ELSE IF s[i] = NL THEN Fail
    ELSE scan_string(s, i + 1, Append(acc, s[i]))

\* d[key] = val of a Python dict: a key it holds keeps its place
dict_put(pairs, key, val) ==
    IF \E k \in 1..Len(pairs) : pairs[k][1] = key
    THEN [k \in 1..Len(pairs) |->
            IF pairs[k][1] = key THEN <<key, val>> ELSE pairs[k]]
    ELSE Append(pairs, <<key, val>>)

\* A JSON value at position i (no white space before it).  Arrays are
\* parsed when empty, numbers when one digit; the lines of the model hold no
\* others.
RECURSIVE parse_value(_, _), parse_members(_, _, _)
parse_value(s, i) ==
    IF i > Len(s) THEN Fail
    ELSE IF s[i] = QUOTE THEN scan_string(s, i + 1, <<>>)
    ELSE IF s[i] = "{" THEN
        LET j == skip_ws(s, i + 1)
        IN  IF j <= Len(s) /\ s[j] = "}" THEN Parsed([dict |-> <<>>], j + 1)
            ELSE parse_members(s, j, <<>>)
    ELSE IF s[i] = "[" THEN
        LET j == skip_ws(s, i + 1)
        IN  IF j <= Len(s) /\ s[j] = "]" THEN Parsed([list |-> <<>>], j + 1)
            ELSE Fail
    ELSE IF s[i] \in Digits THEN Parsed([int |-> s[i]], i + 1)
    ELSE Fail

\* The items of a JSON object from position i, where a key has to start
parse_members(s, i, acc) ==
    IF i > Len(s) \/ s[i] # QUOTE THEN Fail
    ELSE LET key == scan_string(s, i + 1, <<>>)
         IN  IF ~key.ok THEN Fail
             ELSE LET c == skip_ws(s, key.next)
                  IN  IF c > Len(s) \/ s[c] # ":" THEN Fail
                      ELSE LET v == parse_value(s, skip_ws(s, c + 1))
                           IN  IF ~v.ok THEN Fail
                               ELSE LET e == skip_ws(s, v.next)
                                        items == dict_put(acc, key.val.str, v.val)
                                    IN  IF e > Len(s) THEN Fail
                                        ELSE IF s[e] = "}"
                                        THEN Parsed([dict |-> items], e + 1)
                                        ELSE IF s[e] = ","
                                        THEN parse_members(s, skip_ws(s, e + 1), items)
                                        ELSE Fail

\* json.loads(line): one value, white space around it allowed
json_loads(line) ==
    LET v == parse_value(line, skip_ws(line, 1))
    IN  IF v.ok /\ skip_ws(line, v.next) > Len(line) THEN v ELSE Fail

(***************************************************************************)
(* Task store                                                              *)
(***************************************************************************)
dict_keys(pairs) == {pairs[k][1] : k \in 1..Len(pairs)}

dict_get(pairs, key) ==
    pairs[CHOOSE k \in 1..Len(pairs) : pairs[k][1] = key][2]

\* The words of the program as Python strs
Word(w) == Str(<<w>>)
required == {<<"id">>, <<"title">>, <<"status">>}
VALID_STR == {Word(st) : st \in VALID}

\* validate_task: "ok", "ValueError" (caught by read_tasks) or the exception
\* that read_tasks does not catch: AttributeError for a value without keys(),
\* TypeError for an unhashable status tested against the set VALID.
validate_task(task) ==
    IF ~IsDict(task) THEN "AttributeError"
    ELSE IF ~(required \subseteq dict_keys(task.dict)) THEN "ValueError"
    ELSE IF IsList(dict_get(task.dict, <<"status">>)) THEN "TypeError"
    ELSE IF dict_get(task.dict, <<"status">>) \notin VALID_STR THEN "ValueError"
    ELSE "ok"

\* The lines of a text file as "for line in f" yields them: each up to and
\* with its newline, the last one without when the file does not end in one.
file_lines(s) ==
    LET newlines == {i \in 1..Len(s) : s[i] = NL}
        starts == {a \in 1..Len(s) : a = 1 \/ (a - 1) \in newlines}
        start(k) == CHOOSE a \in starts : Cardinality({b \in starts : b < a}) = k - 1
        stop(a) == IF \E p \in newlines : p >= a
                   THEN CHOOSE p \in newlines : p >= a /\ \A q \in newlines : q >= a => p <= q
                   ELSE Len(s)
    IN  [k \in 1..Cardinality(starts) |-> SubSeq(s, start(k), stop(start(k)))]

\* not line.strip()
is_blank(line) == \A k \in 1..Len(line) : line[k] \in {SP, NL}

\* What the body of read_tasks' loop does with one line
line_outcome(line) ==
    IF is_blank(line) THEN "blank"
    ELSE LET v == json_loads(line)
         IN  IF ~v.ok THEN "JSONDecodeError" ELSE validate_task(v.val)

\* read_tasks over the characters of the live file: the tasks appended, the
\* number of warnings logged, and raised = TRUE when an exception left the
\* function.
RECURSIVE read_lines(_, _, _)
read_lines(lines, tasks, warnings) ==
    IF lines = <<>> THEN [raised |-> FALSE, tasks |-> tasks, warnings |-> warnings]
    ELSE LET o == line_outcome(Head(lines))
         IN  IF o = "blank" THEN read_lines(Tail(lines), tasks, warnings)
             ELSE IF o = "ok"
             THEN read_lines(Tail(lines),
                             Append(tasks, json_loads(Head(lines)).val), warnings)
             ELSE IF o \in {"JSONDecodeError", "ValueError"}
             THEN read_lines(Tail(lines), tasks, warnings + 1)
             ELSE [raised |-> TRUE, tasks |-> tasks, warnings |-> warnings]

read_tasks(s) == read_lines(file_lines(s), <<>>, 0)

\* write_tasks: the characters that replace the live file
RECURSIVE write_tasks(_)
write_tasks(tasks) ==
    IF tasks = <<>> THEN <<>>
    ELSE json_dumps(Head(tasks)) \o <<NL>> \o write_tasks(Tail(tasks))

(***************************************************************************)
(* SpecSelect: get_next_task applied to every snapshot of at most MaxSnap  *)
(* tasks over SelIds, ids repeated or not, in every file order.            *)
(***************************************************************************)
MaxSnap == 3

SelIds == {Id1, Id1_1, Id1_2, Id1_1_1, Id10}

SelTasks == [id : SelIds, title : {"t"}, status : VALID]

RECURSIVE SeqsUpTo(_, _)
SeqsUpTo(S, n) ==
    IF n = 0 THEN {<<>>}
    ELSE LET shorter == SeqsUpTo(S, n - 1)
         IN  shorter \cup {Append(q, x) : q \in shorter, x \in S}

Snapshots == SeqsUpTo(SelTasks, MaxSnap)

(***************************************************************************)
(* SpecStore: read_tasks over live files made of the lines of Specimens    *)
(* (at most MaxFileLines of them), and write_tasks followed by read_tasks  *)
(* over the task lists of ValidLists.                                      *)
(***************************************************************************)
MaxFileLines == 2
MaxTitle == 2
MaxStoreTasks == 2

Task3(id, title, status) ==
    [dict |-> << <<<<"id">>, Str(id)>>, <<<<"title">>, Str(title)>>,
                 <<<<"status">>, Word(status)>> >>]

\* The lines a live file may hold, each with what Python does with it
\* ("valid": appended; "blank": passed over; "skipped": warning logged;
\* "nonrecord": JSON, but no object with a hashable status).
SpecimenTask == Task3(Id1, <<"a">>, PENDING)
SpecimenTask2 ==
    [dict |-> << <<<<"status">>, Word(COMPLETE)>>, <<<<"id">>, Str(Id1_1)>>,
                 <<<<"title">>, Str(<<"a", SP, "n">>)>>, <<<<"commit">>, Str(<<"c">>)>> >>]

Specimens == {
    [kind |-> "valid", task |-> SpecimenTask, chars |-> json_dumps(SpecimenTask)],
    [kind |-> "valid", task |-> SpecimenTask2,
     chars |-> <<SP>> \o json_dumps(SpecimenTask2) \o <<SP>>],
    [kind |-> "blank", chars |-> <<>>],
    [kind |-> "blank", chars |-> <<SP, SP>>],
    \* {"id": "1", "title": "a", "status": "pending"  without the closing brace
    [kind |-> "skipped",
     chars |-> SubSeq(json_dumps(SpecimenTask), 1, Len(json_dumps(SpecimenTask)) - 1)],
    \* a
    [kind |-> "skipped", chars |-> <<"a">>],
    \* {"id": "1", "status": "pending"}
    [kind |-> "skipped",
     chars |-> json_dumps([dict |-> << <<<<"id">>, Str(Id1)>>,
                                        <<<<"status">>, Word(PENDING)>> >>])],
    \* {"id": "1", "title": "a", "status": "done"}
    [kind |-> "skipped", chars |-> json_dumps(Task3(Id1, <<"a">>, "done"))],
    \* {"id": "1", "title": "a", "status": 5}
    [kind |-> "skipped",
     chars |-> json_dumps([dict |-> << <<<<"id">>, Str(Id1)>>, <<<<"title">>, Str(<<"a">>)>>,
                                        <<<<"status">>, [int |-> "5"]>> >>])],
    \* {}
    [kind |-> "skipped", chars |-> <<"{", "}">>],
    \* []
    [kind |-> "nonrecord", chars |-> <<"[", "]">>],
    \* 5
    [kind |-> "nonrecord", chars |-> <<"5">>],
    \* "a"
    [kind |-> "nonrecord", chars |-> json_dumps_str(<<"a">>)],
    \* {"id": "1", "title": "a", "status": []}
    [kind |-> "nonrecord",
     chars |-> json_dumps([dict |-> << <<<<"id">>, Str(Id1)>>, <<<<"title">>, Str(<<"a">>)>>,
                                        <<<<"status">>, [list |-> <<>>]>> >>])] }

Files == SeqsUpTo(Specimens, MaxFileLines)

\* The characters of a file made of the given lines, a newline after each
RECURSIVE FileText(_)
FileText(lines) ==
    IF lines = <<>> THEN <<>>
    ELSE Head(lines).chars \o <<NL>> \o FileText(Tail(lines))

TitleChars == {"a", "n", SP, QUOTE, BSL, NL}
Titles == SeqsUpTo(TitleChars, MaxTitle)

\* The valid records of the model: the four statuses, with and without the
\* optional commit field, the keys in two orders.
Shapes == {"pending", "active", "complete", "split"}
Shaped(shape, title) ==
    IF shape = "pending" THEN Task3(Id1, title, PENDING)
    ELSE IF shape = "active" THEN Task3(Id1_1_1, title, ACTIVE)
    ELSE IF shape = "complete"
    THEN [dict |-> Task3(Id1_1, title, COMPLETE).dict
                      \o << <<<<"commit">>, Str(<<"c", "1">>)>> >>]
    ELSE [dict |-> << <<<<"status">>, Word(SPLIT)>>, <<<<"title">>, Str(title)>>,
                      <<<<"id">>, Str(Id10)>> >>]

\* Task lists of at most MaxStoreTasks valid records; the records of one
\* list carry the same title, any of Titles.
ValidLists ==
    {[k \in 1..Len(shapes) |-> Shaped(shapes[k], title)] :
        shapes \in SeqsUpTo(Shapes, MaxStoreTasks), title \in Titles}

LinesOf(tasks) ==
    [k \in 1..Len(tasks) |->
        [kind |-> "valid", task |-> tasks[k], chars |-> json_dumps(tasks[k])]]

InitStore ==
    /\ \/ textLines \in Files /\ mem = <<>>
       \/ textLines = <<>> /\ mem \in ValidLists
    /\ text = FileText(textLines)
    /\ loaded = [state |-> "start", wrote |-> FALSE]

\* write_tasks(tasks): the temporary file, written in full, replaces the
\* live file.
WriteTasks ==
    /\ loaded.state = "start"
    /\ text' = write_tasks(mem)
    /\ textLines' = LinesOf(mem)
    /\ loaded' = [state |-> "start", wrote |-> TRUE]
    /\ UNCHANGED mem

\* tasks = read_tasks()
ReadTasks ==
    /\ loaded.state = "start"
    /\ loaded' = [state |-> "read", wrote |-> loaded.wrote] @@ read_tasks(text)
    /\ UNCHANGED <<text, textLines, mem>>

(***************************************************************************)
(* Agent runner                                                            *)
(***************************************************************************)
\* base_branch = get_current_branch(): the branch main is started on, named
\* as the task branches are named by the task id
base_branch == <<"base">>

\* ClaudeError
NONE == "none"
API_ERROR == "api_error"
RATE_LIMIT == "rate_limit"
TOKEN_LIMIT == "token_limit"
TIMEOUT == "timeout"
UNKNOWN == "unknown"

API_RETRY_DELAYS == <<5, 15, 30, 60>>
RATE_LIMIT_WAIT == 300

\* The diagnostic text of the agent is kept as the set of the phrases of
\* detect_error_type that occur in it (letters compared in lower case) and
\* whether it holds any other character that is not white space.
Phrases == {"rate limit", "429", "insufficient", "credit", "quota",
            "500", "internal server error", "api_error", "timeout"}

Contains(diag, phrase) == phrase \in diag.phrases

\* not stderr.strip()
IsBlankText(diag) == diag.phrases = {} /\ ~diag.other

\* The mutant of detect_error_type: the credit terms are tested first.
detect_error_type_credit_first(diag) ==
    IF IsBlankText(diag) THEN NONE
    ELSE IF Contains(diag, "insufficient") \/ Contains(diag, "credit")
            \/ Contains(diag, "quota") THEN TOKEN_LIMIT
    ELSE IF Contains(diag, "rate limit") \/ Contains(diag, "429") THEN RATE_LIMIT
    ELSE IF Contains(diag, "500") \/ Contains(diag, "internal server error")
            \/ Contains(diag, "api_error") THEN API_ERROR
    ELSE IF Contains(diag, "timeout") THEN TIMEOUT
    ELSE UNKNOWN

detect_error_type(diag) ==
    IF IsBlankText(diag) THEN NONE
    ELSE IF Contains(diag, "rate limit") \/ Contains(diag, "429") THEN RATE_LIMIT
    ELSE IF Contains(diag, "insufficient") \/ Contains(diag, "credit")
            \/ Contains(diag, "quota") THEN TOKEN_LIMIT
    ELSE IF Contains(diag, "500") \/ Contains(diag, "internal server error")
            \/ Contains(diag, "api_error") THEN API_ERROR
    ELSE IF Contains(diag, "timeout") THEN TIMEOUT
    ELSE UNKNOWN

\* What one run of the agent does, as run_claude sees it: the process ends
\* with an exit code and a diagnostic text, or (timedout) it is still
\* running when CLAUDE_TIMEOUT expires on the path without session file.
Outcome(code, diag, timedout) == [code |-> code, text |-> diag, timedout |-> timedout]
BlankText == [phrases |-> {}, other |-> FALSE]

\* run_claude's result for an outcome: (exit_code, error_type)
run_claude_code(o) == IF o.timedout THEN 1 ELSE o.code
run_claude_error(o) == IF o.timedout THEN TIMEOUT ELSE detect_error_type(o.text)

\* The mutant of delay_of: the delay doubles from 5 seconds.
delay_of_doubling(a) == <<5, 10, 20, 40, 0>>[a + 1]

\* API_RETRY_DELAYS + [0], indexed from 0 as enumerate does
delay_of(a) == (API_RETRY_DELAYS \o <<0>>)[a + 1]
last_attempt == Len(API_RETRY_DELAYS)

\* What the body of run_claude_with_retry's loop does with the result of
\* run_claude at attempt a: "return", or the seconds slept before "continue"
\* (as [sleep |-> seconds]).
Return == [return |-> TRUE]
SleepThen(seconds) == [return |-> FALSE, sleep |-> seconds]

\* The mutant of retry_decision: token_limit is retried like an API error.
retry_decision_token_retried(code, etype, a) ==
    IF code = 0 THEN Return
    ELSE IF etype = RATE_LIMIT THEN SleepThen(RATE_LIMIT_WAIT)
    ELSE IF etype = TIMEOUT THEN Return
    ELSE IF delay_of(a) > 0 THEN SleepThen(delay_of(a))
    ELSE Return

\* The mutant of retry_decision: a timeout is retried like an unknown error.
retry_decision_timeout_retried(code, etype, a) ==
    IF code = 0 THEN Return
    ELSE IF etype = RATE_LIMIT THEN SleepThen(RATE_LIMIT_WAIT)
    ELSE IF etype = TOKEN_LIMIT THEN Return
    ELSE IF delay_of(a) > 0 THEN SleepThen(delay_of(a))
    ELSE Return

retry_decision(code, etype, a) ==
    IF code = 0 THEN Return
    ELSE IF etype = RATE_LIMIT THEN SleepThen(RATE_LIMIT_WAIT)
    ELSE IF etype = TOKEN_LIMIT THEN Return
    ELSE IF etype = API_ERROR
    THEN (IF delay_of(a) > 0 THEN SleepThen(delay_of(a)) ELSE Return)
    ELSE IF etype = TIMEOUT THEN Return
    ELSE (IF delay_of(a) > 0 THEN SleepThen(delay_of(a)) ELSE Return)

NoPrompt == [kind |-> "none"]

\* run_claude_with_retry(p) is entered.
call_retry(p) ==
    /\ rpc' = "run"
    /\ prompt' = p
    /\ attempt' = 0
    /\ exit_code' = 0
    /\ error_type' = NONE
    /\ stderr' = BlankText
    /\ sleepFor' = 0
    /\ UNCHANGED agentPrompt

\* exit_code, error_type, error_msg = run_claude(prompt), the agent ending
\* with outcome o, and the rest of the loop body up to its return or sleep
run_claude_step(o) ==
    /\ rpc = "run"
    /\ agentPrompt' = prompt
    /\ exit_code' = run_claude_code(o)
    /\ error_type' = run_claude_error(o)
    /\ stderr' = o.text
    /\ LET d == retry_decision(run_claude_code(o), run_claude_error(o), attempt)
       IN  IF d.return
           THEN rpc' = "ret" /\ sleepFor' = 0
           ELSE rpc' = "sleep" /\ sleepFor' = d.sleep
    /\ UNCHANGED <<prompt, attempt>>

\* The mutant of sleep_done: the retry after a rate limit takes no element of
\* API_RETRY_DELAYS + [0].
sleep_done_rate_limit_free ==
    /\ rpc = "sleep"
    /\ sleepFor' = 0
    /\ IF error_type = RATE_LIMIT THEN rpc' = "run" /\ attempt' = attempt
       ELSE IF attempt < last_attempt
       THEN rpc' = "run" /\ attempt' = attempt + 1
       ELSE rpc' = "ret" /\ attempt' = attempt
    /\ UNCHANGED <<prompt, exit_code, error_type, stderr, agentPrompt>>

\* time.sleep returns and "continue" takes the next element of
\* API_RETRY_DELAYS + [0]; after the last one the loop is left and line 723
\* returns the last result.
sleep_done ==
    /\ rpc = "sleep"
    /\ sleepFor' = 0
    /\ IF attempt < last_attempt
       THEN rpc' = "run" /\ attempt' = attempt + 1
       ELSE rpc' = "ret" /\ attempt' = attempt
    /\ UNCHANGED <<prompt, exit_code, error_type, stderr, agentPrompt>>

\* run_claude_with_retry has returned; the caller keeps (code, etype) in its
\* own exit_code and error_type.
retry_returned(code, etype) ==
    /\ rpc' = "idle"
    /\ attempt' = 0
    /\ exit_code' = code
    /\ error_type' = etype
    /\ stderr' = BlankText
    /\ sleepFor' = 0
    /\ prompt' = NoPrompt
    /\ agentPrompt' = NoPrompt

\* The caller has taken the returned tuple and keeps nothing of it.
retry_taken == retry_returned(0, NONE)

(***************************************************************************)
(* SpecRetry: calls of run_claude_with_retry, the agent ending each run    *)
(* with any exit code and any diagnostic text of at most MaxPhrases        *)
(* phrases, or timing out.                                                 *)
(***************************************************************************)
MaxPhrases == 2

StderrTexts ==
    [phrases : {ph \in SUBSET Phrases : Cardinality(ph) <= MaxPhrases},
     other : BOOLEAN]

RetryOutcomes ==
    {Outcome(code, t, FALSE) : code \in {0, 1}, t \in StderrTexts}
        \cup {Outcome(1, BlankText, TRUE)}

RetryPrompts == {[kind |-> "A"], [kind |-> "B"]}

RetryUnused ==
    /\ rpc = "idle" /\ prompt = NoPrompt /\ attempt = 0 /\ exit_code = 0
    /\ error_type = NONE /\ stderr = BlankText /\ sleepFor = 0
    /\ agentPrompt = NoPrompt

InitRetry ==
    /\ rpc = "idle" /\ prompt = NoPrompt /\ attempt = 0 /\ exit_code = 0
    /\ error_type = NONE /\ stderr = BlankText /\ sleepFor = 0
    /\ agentPrompt = NoPrompt

\* A caller calls run_claude_with_retry(prompt).
RetryCall ==
    /\ rpc = "idle"
    /\ \E p \in RetryPrompts : call_retry(p)

RetryRun == \E o \in RetryOutcomes : run_claude_step(o)

RetrySleepDone == sleep_done

\* The caller takes the result.
RetryReturn ==
    /\ rpc = "ret"
    /\ retry_taken

(***************************************************************************)
(* The specifications.  Each leaves the variables of the others unused.    *)
(***************************************************************************)
NotCalled == [index |-> 0, task |-> NoTask, mode |-> "not called"]

SelUnused == snap = <<>> /\ sel = NotCalled
FilesUnused ==
    /\ disk = [state |-> "unused"]
    /\ writer = [pc |-> "unused"]
    /\ reader = [pc |-> "unused"]

TextUnused ==
    /\ text = <<>> /\ textLines = <<>> /\ mem = <<>>
    /\ loaded = [state |-> "unused"]

RunUnused == run = [pc |-> "unused"]

ConUnused == con = [main |-> "unused"]

StoreUnused == TextUnused /\ FilesUnused /\ RunUnused /\ ConUnused

CtlUnused ==
    /\ pc = "unused" /\ tasksFile = <<>> /\ doneFile = <<>>
    /\ iterations = 0 /\ task_done = FALSE
    /\ head = 0 /\ branches = {} /\ checkedOut = base_branch
    /\ stopFile = FALSE /\ console_quit = FALSE
    /\ console_input_queue = <<>> /\ inbox = <<>>
    /\ console = FALSE /\ daemon = FALSE /\ ideaDefined = FALSE
    /\ waiting_logged = FALSE /\ surfaced = FALSE /\ incidents = 0
    /\ answer = "none" /\ junk = FALSE

InitSelect ==
    /\ snap \in Snapshots
    /\ sel = NotCalled
    /\ StoreUnused
    /\ RetryUnused
    /\ CtlUnused

\* task, mode = get_next_task(tasks)
Select ==
    /\ sel.mode = "not called"
    /\ sel' = get_next_task(snap)
    /\ UNCHANGED <<snap, storeVars, retryVars, ctlVars>>

NextSelect == Select

SpecSelect == InitSelect /\ [][NextSelect]_vars

InitStoreSpec == InitStore /\ FilesUnused /\ RunUnused /\ ConUnused /\ SelUnused /\ RetryUnused /\ CtlUnused

NextStore ==
    \/ WriteTasks /\ UNCHANGED <<fileVars, run, con, selVars, retryVars, ctlVars>>
    \/ ReadTasks /\ UNCHANGED <<fileVars, run, con, selVars, retryVars, ctlVars>>

SpecStore == InitStoreSpec /\ [][NextStore]_vars

InitRetrySpec == InitRetry /\ SelUnused /\ StoreUnused /\ CtlUnused

NextRetry ==
    \/ RetryCall /\ UNCHANGED <<selVars, storeVars, ctlVars>>
    \/ RetryRun /\ UNCHANGED <<selVars, storeVars, ctlVars>>
    \/ RetrySleepDone /\ UNCHANGED <<selVars, storeVars, ctlVars>>
    \/ RetryReturn /\ UNCHANGED <<selVars, storeVars, ctlVars>>

SpecRetry == InitRetrySpec /\ [][NextRetry]_vars

\* Every run of the agent ends with some outcome and every sleep ends.
RetryProgress == (RetryRun \/ RetrySleepDone) /\ UNCHANGED <<selVars, storeVars, ctlVars>>

SpecRetryLive == InitRetrySpec /\ [][NextRetry]_vars /\ WF_vars(RetryProgress)

\* SpecDetect: detect_error_type is handed a diagnostic text, any set of its
\* phrases occurring in the text.
AllTexts == [phrases : SUBSET Phrases, other : BOOLEAN]

InitDetect ==
    /\ rpc = "detect" /\ stderr \in AllTexts
    /\ prompt = NoPrompt /\ attempt = 0 /\ exit_code = 0
    /\ error_type = NONE /\ sleepFor = 0 /\ agentPrompt = NoPrompt
    /\ SelUnused /\ StoreUnused /\ CtlUnused

\* error_type, _ = detect_error_type(stderr)
Detect ==
    /\ rpc = "detect"
    /\ error_type' = detect_error_type(stderr)
    /\ rpc' = "detected"
    /\ UNCHANGED <<prompt, attempt, exit_code, stderr, sleepFor, agentPrompt,
                   selVars, storeVars, ctlVars>>

NextDetect == Detect

SpecDetect == InitDetect /\ [][NextDetect]_vars

(***************************************************************************)
(* The loop controller: main.  The two task files are kept as the records  *)
(* read_tasks returns for them; every task the agent writes has the title  *)
(* "t".                                                                    *)
(***************************************************************************)
MAX_ITERATIONS == 20

BootstrapTitle == "Read idea.md and create initial task breakdown"

Task(id, status) == [id |-> id, title |-> "t", status |-> status]

Ids(ts) == {ts[i].id : i \in DOMAIN ts}

\* the positions of ts whose record has the id
positions(ts, id) == {i \in DOMAIN ts : ts[i].id = id}

get_task_by_id(ts, id) ==
    IF positions(ts, id) = {} THEN NoTask ELSE ts[first_index(positions(ts, id))]

\* for task in tasks: if task['id'] == task_id: task['status'] = status; break
set_status(ts, id, status) ==
    [i \in DOMAIN ts |->
        IF i = first_index(positions(ts, id))
        THEN [ts[i] EXCEPT !.status = status] ELSE ts[i]]

\* current['commit'] = commit_hash
set_commit(ts, id, commit_hash) ==
    [i \in DOMAIN ts |->
        IF i = first_index(positions(ts, id))
        THEN [commit |-> commit_hash] @@ ts[i] ELSE ts[i]]

\* [t for t in ts if keep(t)], for the ids in keep
keep_ids(ts, keep) == SelectSeq(ts, LAMBDA t : t.id \in keep)

\* The mutant of get_all_descendants: the direct children only.
get_all_descendants_direct(ts, parent_id) == get_children(ts, parent_id)

\* The mutant of get_all_descendants: the prefix is the parent id without
\* the dot.
get_all_descendants_dotless(ts, parent_id) ==
    SelectSeq(ts, LAMBDA t : startswith(t.id, parent_id))

get_all_descendants(ts, parent_id) ==
    SelectSeq(ts, LAMBDA t : startswith(t.id, parent_id \o <<".">>))

\* The mutant of is_root_task: a task right under a root counts as a root.
is_root_task_or_child(id) == count(id, ".") <= 1

is_root_task(id) == count(id, ".") = 0

\* {**t, 'completed': date.today().isoformat(), 'commit': commit_hash}
done_task(t, commit_hash) ==
    [completed |-> "today", commit |-> commit_hash] @@ t

\* The mutant of archive_task_tree: the live file is not rewritten.
archive_task_tree_appending(ts, id, commit_hash) ==
    IF positions(ts, id) = {} THEN [live |-> ts, done |-> <<>>]
    ELSE LET to_archive == <<get_task_by_id(ts, id)>> \o get_all_descendants(ts, id)
         IN  [live |-> ts,
              done |-> [i \in DOMAIN to_archive |-> done_task(to_archive[i], commit_hash)]]

\* archive_task_tree as [live |-> the tasks written, done |-> the records
\* appended with append_done, in order]
archive_task_tree(ts, id, commit_hash) ==
    IF positions(ts, id) = {} THEN [live |-> ts, done |-> <<>>]
    ELSE LET to_archive == <<get_task_by_id(ts, id)>> \o get_all_descendants(ts, id)
             to_archive_ids == Ids(to_archive)
         IN  [live |-> keep_ids(ts, Ids(ts) \ to_archive_ids),
              done |-> [i \in DOMAIN to_archive |-> done_task(to_archive[i], commit_hash)]]

\* The mutant of finalize_complete: every complete task is archived.
finalize_complete_archiving(ts, id, commit_hash) == archive_task_tree(ts, id, commit_hash)

\* Lines 1004-1012: what finalization writes for a complete task
finalize_complete(ts, id, commit_hash) ==
    IF is_root_task(id) THEN archive_task_tree(ts, id, commit_hash)
    ELSE [live |-> set_commit(ts, id, commit_hash), done |-> <<>>]

\* evaluate_triggers
evaluate_triggers(iteration, m) ==
    IF iteration >= 5 /\ m = "work" THEN "reviewer"
    ELSE IF m = "verify" THEN "architect"
    ELSE None

\* The prompts, by what build_prompt and the other builders put in them
build_prompt(id, m, role, user_input) ==
    [kind |-> "task", id |-> id, mode |-> m, role |-> role, user_input |-> user_input]
input_prompt(user_input) == [kind |-> "input", user_input |-> user_input]
build_init_prompt == [kind |-> "init"]
build_completion_check_prompt == [kind |-> "check"]

\* is_project_never_started: st_size > 0 is "holds a record" for
\* tasks-done.jsonl, "holds a record or a line read_tasks skips" for
\* tasks.jsonl
is_project_never_started ==
    ideaDefined /\ Len(doneFile) = 0 /\ ~(Len(tasksFile) > 0 \/ junk)

\* create_bootstrap_task
bootstrap == <<[id |-> Id0, title |-> BootstrapTitle, status |-> PENDING]>>

(***************************************************************************)
(* The agent and the user, as the controller meets them.                   *)
(***************************************************************************)
MaxTasks == 3
Universe == {Id1, Id1_1, Id1_2, Id1_1_1}

\* the id without its last segment; nothing for a root
parent_id_of(id) ==
    LET dots == {k \in 1..Len(id) : id[k] = "."}
    IN  IF dots = {} THEN <<>>
        ELSE SubSeq(id, 1, (CHOOSE k \in dots : \A j \in dots : j <= k) - 1)

\* The tasks a run of the agent may add to the files live and done, all
\* pending: never an id of either file, and as many as MaxTasks leaves room
\* for.  Subtasks(id, ...) are the lists of direct subtasks of the task id.
Fresh(live, done) == Universe \ (Ids(live) \cup Ids(done))

Room(live, done) ==
    IF Len(live) + Len(done) >= MaxTasks THEN 0
    ELSE MaxTasks - (Len(live) + Len(done))

Distinct(ids) == \A i, j \in DOMAIN ids : i # j => ids[i] # ids[j]

Pending(ids) == [i \in DOMAIN ids |-> Task(ids[i], PENDING)]

Roots(live, done) ==
    IF Room(live, done) = 0 THEN {}
    ELSE {<<id>> : id \in {r \in Fresh(live, done) : is_root_task(r)}}

Subtasks(id, live, done) ==
    {ids \in SeqsUpTo({c \in Fresh(live, done) : parent_id_of(c) = id}, Room(live, done)) :
        ids # <<>> /\ Distinct(ids)}

Working(p, live) == p.kind = "task" /\ get_task_by_id(live, p.id).status = ACTIVE

\* What a run of the agent started with prompt p may leave in tasks.jsonl.
\* Asked something else than a task, it leaves the file as it was or adds a
\* root task.  Working on a task, it leaves the file as it was, or completes
\* the task (adding a root task or none), or splits it (adding subtasks or
\* none).
AgentWrites(p, live, done) ==
    IF Working(p, live)
    THEN {live, set_status(live, p.id, COMPLETE), set_status(live, p.id, SPLIT)}
         \cup {set_status(live, p.id, COMPLETE) \o Pending(ids) : ids \in Roots(live, done)}
         \cup {set_status(live, p.id, SPLIT) \o Pending(ids) :
                  ids \in Subtasks(p.id, live, done)}
    ELSE IF p.kind = "task" THEN {live}
    ELSE {live} \cup {live \o Pending(ids) : ids \in Roots(live, done)}

\* The results of the runs of the agent under the controller: success, and
\* one failure for each error type detect_error_type and run_claude give a
\* failing run; a run that fails leaves tasks.jsonl as it was.  At most
\* MaxIncidents times something comes in the way: the user does something,
\* the first run of a call of run_claude_with_retry fails (each run that
\* follows it in the same call succeeds or fails as the run before it did),
\* git makes a commit it was not expected to make or makes none.  A failure
\* that run_claude_with_retry sleeps on is the first of them: while the call
\* sleeps and runs the agent again main reads nothing, so what comes in the
\* way before such a call is met in the runs where it comes after it.
MaxIncidents == 1

Succeeds == Outcome(0, BlankText, FALSE)

Failures ==
    {Outcome(1, BlankText, TRUE), Outcome(1, [phrases |-> {}, other |-> TRUE], FALSE)}
    \cup {Outcome(1, [phrases |-> {ph}, other |-> FALSE], FALSE) :
             ph \in {"429", "credit", "500"}}

\* Whether a run of the agent that succeeds, asked p and leaving the records
\* live, leaves a line in tasks.jsonl that read_tasks skips (a blank line,
\* invalid JSON, a record without status): it may when it was asked
\* something else than a task and leaves no record.  write_tasks and
\* create_bootstrap_task write the file anew, without such lines.
Scribbles(p, live) ==
    IF p.kind # "task" /\ live = <<>> THEN {junk, TRUE} ELSE {junk}

\* What the agent replies in a run that ends with outcome o, asked p.  The
\* completion check asks it to reply PROJECT_COMPLETE or to add tasks; a run
\* that succeeds replies one thing or the other whatever it has written, a
\* run that fails replies nothing.  The reply goes to the session transcript
\* and the terminal; stdout is DEVNULL and main reads none of it.
Replies(p, o) ==
    IF p.kind # "check" THEN {answer}
    ELSE IF run_claude_code(o) = 0 THEN {"PROJECT_COMPLETE", "GAPS"}
    ELSE {"none"}

\* A run of the agent that works on a task and succeeds may also leave
\* tasks.jsonl without the record of the task (the file is the agent's to
\* rewrite): one more thing that comes in the way.
Loses(p, live) == keep_ids(live, Ids(live) \ {p.id})

\* run_claude_with_retry returns the failure o of a first run at once.
Surfaces(o) == retry_decision(run_claude_code(o), run_claude_error(o), 0).return

\* The user acts while main runs.  What the user does while
\* run_claude_with_retry sleeps is taken as done before the run that the
\* sleep follows: main reads none of it before the call returns.
Running == pc # "stopped" /\ rpc # "sleep"

\* What no step of the user touches
UserFrame ==
    UNCHANGED <<storeVars, pc, selVars, tasksFile, junk, doneFile, iterations, task_done, gitVars,
                console, daemon, ideaDefined, waiting_logged, surfaced, answer, retryVars>>

\* touch .stop
UserStop ==
    /\ Running /\ ~stopFile /\ incidents < MaxIncidents
    /\ stopFile' = TRUE
    /\ incidents' = incidents + 1
    /\ UNCHANGED <<console_quit, console_input_queue, inbox>>
    /\ UserFrame

\* console_reader_thread: a line is typed
UserLine ==
    /\ Running /\ console /\ ~console_quit /\ incidents < MaxIncidents
    /\ console_input_queue' = Append(console_input_queue, incidents + 1)
    /\ incidents' = incidents + 1
    /\ UNCHANGED <<stopFile, console_quit, inbox>>
    /\ UserFrame

\* console_reader_thread: EOFError or KeyboardInterrupt
UserQuit ==
    /\ Running /\ console /\ ~console_quit /\ incidents < MaxIncidents
    /\ console_quit' = TRUE
    /\ incidents' = incidents + 1
    /\ UNCHANGED <<stopFile, console_input_queue, inbox>>
    /\ UserFrame

\* The user writes a message to inbox.txt.
UserInbox ==
    /\ Running /\ incidents < MaxIncidents
    /\ inbox' = Append(inbox, incidents + 1)
    /\ incidents' = incidents + 1
    /\ UNCHANGED <<stopFile, console_quit, console_input_queue>>
    /\ UserFrame

(***************************************************************************)
(* main, one action for each stretch of it between two blocking calls.     *)
(* The locals of a claim cycle (tasks, task, mode, iterations, task_done,   *)
(* exit_code, error_type) are kept while the cycle lasts: snap is tasks,   *)
(* sel is (task, mode).                                                    *)
(***************************************************************************)
NoLocals ==
    /\ snap' = <<>> /\ sel' = NotCalled /\ iterations' = 0 /\ task_done' = FALSE
    /\ exit_code' = 0 /\ error_type' = NONE
    /\ UNCHANGED <<rpc, prompt, attempt, stderr, sleepFor, agentPrompt>>

\* user_input as the idle handling and the task loop assemble it: the inbox
\* first, then the console lines
drained_input == inbox \o (IF console THEN console_input_queue ELSE <<>>)

\* read_inbox and get_console_input have emptied what they read
Drain ==
    /\ inbox' = <<>>
    /\ console_input_queue' = IF console THEN <<>> ELSE console_input_queue
    /\ UNCHANGED <<stopFile, console_quit>>

Idle == get_next_task(tasksFile).index = 0


\* The mutant of PollOn: the poll goes on without looking at .stop.
PollOn_sentinel_unseen == pc = "poll" /\ ~(console /\ console_quit)

\* Lines 843 and 848 both false: the poll goes on to read_tasks
PollOn == pc = "poll" /\ ~stopFile /\ ~(console /\ console_quit)

\* The mutant of PollStop: .stop is honoured only when no task is waiting.
PollStop_when_idle ==
    /\ pc = "poll" /\ stopFile /\ Idle
    /\ stopFile' = FALSE
    /\ pc' = "stopped"
    /\ UNCHANGED <<storeVars, selVars, retryVars, tasksFile, junk, doneFile, iterations, task_done,
                   gitVars, console_quit, console_input_queue, inbox,
                   console, daemon, ideaDefined, waiting_logged, surfaced, answer, incidents>>

\* Lines 843-846
PollStop ==
    /\ pc = "poll" /\ stopFile
    /\ stopFile' = FALSE
    /\ pc' = "stopped"
    /\ UNCHANGED <<storeVars, selVars, retryVars, tasksFile, junk, doneFile, iterations, task_done,
                   gitVars, console_quit, console_input_queue, inbox,
                   console, daemon, ideaDefined, waiting_logged, surfaced, answer, incidents>>

\* Lines 848-850
PollQuit ==
    /\ pc = "poll" /\ ~stopFile /\ console /\ console_quit
    /\ pc' = "stopped"
    /\ UNCHANGED <<storeVars, selVars, retryVars, tasksFile, junk, doneFile, iterations, task_done,
                   gitVars, userVars, console, daemon, ideaDefined, waiting_logged,
                   surfaced, answer, incidents>>

\* The mutant of PollTask: the console queue and the inbox are read before
\* a task is looked for.
PollTask_draining ==
    /\ PollOn /\ ~Idle
    /\ snap' = tasksFile
    /\ sel' = get_next_task(tasksFile)
    /\ waiting_logged' = FALSE
    /\ pc' = "claim"
    /\ answer' = "none"
    /\ Drain
    /\ UNCHANGED <<storeVars, retryVars, tasksFile, junk, doneFile, iterations, task_done,
                   gitVars, console, daemon, ideaDefined, surfaced, incidents>>

\* The mutant of PollTask: a pending task is taken before the active one.
PollTask_pending_first ==
    /\ PollOn /\ ~Idle
    /\ snap' = tasksFile
    /\ sel' = get_next_task_pending_first(tasksFile)
    /\ waiting_logged' = FALSE
    /\ pc' = "claim"
    /\ answer' = "none"
    /\ UNCHANGED <<storeVars, retryVars, tasksFile, junk, doneFile, iterations, task_done,
                   gitVars, userVars, console, daemon, ideaDefined, surfaced, incidents>>

\* Lines 852-855 and 925-928: a task is selected
PollTask ==
    /\ PollOn /\ ~Idle
    /\ snap' = tasksFile
    /\ sel' = get_next_task(tasksFile)
    /\ waiting_logged' = FALSE
    /\ pc' = "claim"
    /\ answer' = "none"
    /\ UNCHANGED <<storeVars, retryVars, tasksFile, junk, doneFile, iterations, task_done, gitVars,
                   userVars, console, daemon, ideaDefined, surfaced, incidents>>

\* Lines 858-875 up to the call
IdleInput ==
    /\ PollOn /\ Idle /\ drained_input # <<>>
    /\ Drain
    /\ waiting_logged' = FALSE
    /\ call_retry(input_prompt(drained_input))
    /\ pc' = "call"
    /\ answer' = "none"
    /\ UNCHANGED <<storeVars, selVars, tasksFile, junk, doneFile, iterations, task_done, gitVars,
                   console, daemon, ideaDefined, surfaced, incidents>>

\* Lines 878-881
IdleBootstrap ==
    /\ PollOn /\ Idle /\ drained_input = <<>> /\ is_project_never_started
    /\ tasksFile' = bootstrap
    /\ junk' = FALSE
    /\ UNCHANGED <<storeVars, pc, selVars, retryVars, doneFile, iterations, task_done, gitVars,
                   userVars, console, daemon, ideaDefined, waiting_logged, surfaced, answer, incidents>>

IdleQuiet == PollOn /\ Idle /\ drained_input = <<>> /\ ~is_project_never_started

\* The mutant of IdleWait: a daemon with nothing to do leaves the loop.
IdleWait_exits ==
    /\ IdleQuiet /\ daemon
    /\ waiting_logged' = TRUE
    /\ pc' = "stopped"
    /\ UNCHANGED <<storeVars, selVars, retryVars, tasksFile, junk, doneFile, iterations, task_done,
                   gitVars, userVars, console, daemon, ideaDefined, surfaced, answer, incidents>>

\* Lines 883-889
IdleWait ==
    /\ IdleQuiet /\ daemon
    /\ waiting_logged' = TRUE
    /\ UNCHANGED <<storeVars, pc, selVars, retryVars, tasksFile, junk, doneFile, iterations, task_done,
                   gitVars, userVars, console, daemon, ideaDefined, surfaced, answer, incidents>>

\* Lines 892-895 up to the call
IdleInit ==
    /\ IdleQuiet /\ ~daemon /\ ~ideaDefined
    /\ call_retry(build_init_prompt)
    /\ pc' = "call"
    /\ UNCHANGED <<storeVars, selVars, tasksFile, junk, doneFile, iterations, task_done, gitVars,
                   userVars, console, daemon, ideaDefined, waiting_logged, surfaced, answer, incidents>>

\* Lines 904-907 up to the call
IdleCheck ==
    /\ IdleQuiet /\ ~daemon /\ ideaDefined
    /\ call_retry(build_completion_check_prompt)
    /\ pc' = "call"
    /\ answer' = "none"
    /\ UNCHANGED <<storeVars, selVars, tasksFile, junk, doneFile, iterations, task_done, gitVars,
                   userVars, console, daemon, ideaDefined, waiting_logged, surfaced, incidents>>

task_id == sel.task.id

\* The mutant of Claim: the status is set in memory and not written.
Claim_unpersisted ==
    /\ pc = "claim"
    /\ snap' = set_status(snap, task_id, ACTIVE)
    /\ pc' = "branch"
    /\ UNCHANGED <<storeVars, sel, retryVars, tasksFile, junk, doneFile, iterations, task_done,
                   gitVars, userVars, console, daemon, ideaDefined, waiting_logged,
                   surfaced, answer, incidents>>

\* Line 931: update_task_status(tasks, task_id, 'active')
Claim ==
    /\ pc = "claim"
    /\ snap' = set_status(snap, task_id, ACTIVE)
    /\ tasksFile' = set_status(snap, task_id, ACTIVE)
    /\ junk' = FALSE
    /\ pc' = "branch"
    /\ UNCHANGED <<storeVars, sel, retryVars, doneFile, iterations, task_done, gitVars, userVars,
                   console, daemon, ideaDefined, waiting_logged, surfaced, answer, incidents>>

\* Lines 934-939: create_branch, and the task loop is set up
Branch ==
    /\ pc = "branch"
    /\ branches' = branches \cup {task_id}
    /\ checkedOut' = task_id
    /\ iterations' = 0
    /\ task_done' = FALSE
    /\ pc' = "iterate"
    /\ UNCHANGED <<storeVars, selVars, retryVars, tasksFile, junk, doneFile, head, userVars,
                   console, daemon, ideaDefined, waiting_logged, surfaced, answer, incidents>>

\* The mutant of Iterate: the loop is entered once more at the ceiling.
Iterate_once_more ==
    /\ pc = "iterate" /\ iterations <= MAX_ITERATIONS
    /\ iterations' = iterations + 1
    /\ Drain
    /\ call_retry(build_prompt(task_id, sel.mode,
                               evaluate_triggers(iterations + 1, sel.mode),
                               drained_input))
    /\ pc' = "call"
    /\ UNCHANGED <<storeVars, selVars, tasksFile, junk, doneFile, task_done, gitVars,
                   console, daemon, ideaDefined, waiting_logged, surfaced, answer, incidents>>

\* Lines 941-962 up to the call
Iterate ==
    /\ pc = "iterate" /\ iterations < MAX_ITERATIONS
    /\ iterations' = iterations + 1
    /\ Drain
    /\ call_retry(build_prompt(task_id, sel.mode,
                               evaluate_triggers(iterations + 1, sel.mode),
                               drained_input))
    /\ pc' = "call"
    /\ UNCHANGED <<storeVars, selVars, tasksFile, junk, doneFile, task_done, gitVars,
                   console, daemon, ideaDefined, waiting_logged, surfaced, answer, incidents>>

\* Lines 941 and 994-995, the condition of the loop false
IterateEnd ==
    /\ pc = "iterate" /\ iterations >= MAX_ITERATIONS
    /\ pc' = "finalize"
    /\ UNCHANGED <<storeVars, selVars, retryVars, tasksFile, junk, doneFile, iterations, task_done,
                   gitVars, userVars, console, daemon, ideaDefined, waiting_logged,
                   surfaced, answer, incidents>>

\* The mutant of WorkReturn: a task whose record is gone is worked on again.
WorkReturn_missing_goes_on(code, etype, live) ==
    LET current == get_task_by_id(live, task_id)
        again == IF code # 0 THEN etype # TOKEN_LIMIT
                 ELSE current.status \notin {COMPLETE, SPLIT}
    IN  /\ retry_returned(code, etype)
        /\ snap' = IF code # 0 THEN snap ELSE live
        /\ task_done' = IF code # 0 THEN task_done
                        ELSE current.status \in {COMPLETE, SPLIT}
        /\ pc' = IF again THEN "iterate" ELSE "finalize"
        /\ iterations' = IF again THEN iterations ELSE 0

\* What main does with the result (exit_code, error_type) of a call of
\* run_claude_with_retry, tasks.jsonl being live when the call returns.
\* Lines 964-995, the task loop: it goes on, or it is left by break, after
\* which iterations is only logged.
WorkReturn(code, etype, live) ==
    LET current == get_task_by_id(live, task_id)
        again == IF code # 0 THEN etype # TOKEN_LIMIT
                 ELSE current.status = ACTIVE \/ current.status = PENDING
    IN  /\ retry_returned(code, etype)
        /\ snap' = IF code # 0 THEN snap ELSE live
        /\ task_done' = IF code # 0 THEN task_done
                        ELSE current.status \in {COMPLETE, SPLIT}
        /\ pc' = IF again THEN "iterate" ELSE "finalize"
        /\ iterations' = IF again THEN iterations ELSE 0

\* Lines 874-875, the idle handling of user input: the result is not looked at
InputReturn ==
    /\ retry_taken
    /\ pc' = "poll"
    /\ UNCHANGED <<snap, task_done, iterations>>

\* Lines 897-901, the setup prompt
InitReturn(code, etype) ==
    /\ retry_taken
    /\ pc' = IF code # 0 /\ etype = TOKEN_LIMIT THEN "stopped" ELSE "poll"
    /\ UNCHANGED <<snap, task_done, iterations>>

\* The mutant of CheckReturn: main stops when the reloaded tasks.jsonl holds
\* no task that get_next_task selects.
CheckReturn_none_selectable(code, etype, live) ==
    /\ retry_taken
    /\ pc' = IF code # 0
             THEN (IF etype = TOKEN_LIMIT THEN "stopped" ELSE "poll")
             ELSE (IF get_next_task(live).index # 0 THEN "poll" ELSE "stopped")
    /\ UNCHANGED <<snap, task_done, iterations>>

\* Lines 909-923, the completion check
CheckReturn(code, etype, live) ==
    /\ retry_taken
    /\ pc' = IF code # 0
             THEN (IF etype = TOKEN_LIMIT THEN "stopped" ELSE "poll")
             ELSE (IF Len(live) > 0 THEN "poll" ELSE "stopped")
    /\ UNCHANGED <<snap, task_done, iterations>>

\* run_claude_with_retry returns (code, etype) to the place that called it.
Returns(code, etype, live) ==
    /\ surfaced' = (surfaced \/ (code # 0 /\ etype = TOKEN_LIMIT))
    /\ CASE prompt.kind = "task" -> WorkReturn(code, etype, live)
         [] prompt.kind = "input" -> InputReturn
         [] prompt.kind = "init" -> InitReturn(code, etype)
         [] prompt.kind = "check" -> CheckReturn(code, etype, live)

\* A run of the agent, the one of attempt a of run_claude_with_retry, ends
\* with outcome o and tasks.jsonl left as live: run_claude_with_retry returns
\* the result or goes to sleep.
AgentEnds(o, live, a) ==
    LET code == run_claude_code(o)
        etype == run_claude_error(o)
        d == retry_decision(code, etype, a)
    IN  /\ tasksFile' = live
        /\ IF d.return
           THEN Returns(code, etype, live)
           ELSE /\ rpc' = "sleep" /\ sleepFor' = d.sleep /\ attempt' = a
                /\ exit_code' = code /\ error_type' = etype /\ stderr' = o.text
                /\ agentPrompt' = prompt
                /\ UNCHANGED <<prompt, pc, snap, task_done, iterations, surfaced>>

\* The agent runs for the first time in a call of run_claude_with_retry, and
\* main goes on to its next blocking call.
AgentRun ==
    /\ pc = "call" /\ rpc = "run"
    /\ \/ /\ incidents' = incidents
          /\ \E live \in AgentWrites(prompt, tasksFile, doneFile) :
                 AgentEnds(Succeeds, live, attempt)
          /\ answer' \in Replies(prompt, Succeeds)
          /\ junk' \in Scribbles(prompt, tasksFile')
       \/ /\ incidents < MaxIncidents
          /\ incidents' = incidents + 1
          /\ \E o \in Failures :
                /\ incidents = 0 \/ Surfaces(o)
                /\ AgentEnds(o, tasksFile, attempt)
                /\ answer' \in Replies(prompt, o)
          /\ junk' = junk
       \/ /\ Working(prompt, tasksFile) /\ incidents < MaxIncidents
          /\ incidents' = incidents + 1
          /\ AgentEnds(Succeeds, Loses(prompt, tasksFile), attempt)
          /\ answer' = answer /\ junk' = junk
    /\ ideaDefined' \in IF prompt.kind = "init" THEN {ideaDefined, TRUE}
                        ELSE {ideaDefined}
    /\ UNCHANGED <<storeVars, sel, doneFile, gitVars, userVars, console, daemon,
                   waiting_logged>>

\* time.sleep inside run_claude_with_retry returns: "continue" takes the next
\* element of API_RETRY_DELAYS + [0] and the agent runs again, or after the
\* last element line 723 returns the last result.
RetrySleep ==
    /\ pc = "call" /\ rpc = "sleep"
    /\ IF attempt < last_attempt
       THEN \/ /\ \E live \in AgentWrites(prompt, tasksFile, doneFile) :
                    AgentEnds(Succeeds, live, attempt + 1)
               /\ answer' \in Replies(prompt, Succeeds)
               /\ junk' \in Scribbles(prompt, tasksFile')
            \/ /\ AgentEnds(Outcome(1, stderr, FALSE), tasksFile, attempt + 1)
               /\ answer' = answer /\ junk' = junk
       ELSE Returns(exit_code, error_type, tasksFile) /\ tasksFile' = tasksFile
            /\ answer' = answer /\ junk' = junk
    /\ ideaDefined' \in IF prompt.kind = "init" THEN {ideaDefined, TRUE}
                        ELSE {ideaDefined}
    /\ UNCHANGED <<storeVars, sel, doneFile, gitVars, userVars, console,
                   daemon, waiting_logged, incidents>>

current_status == get_task_by_id(tasksFile, task_id).status

\* The mutant of FinalizeComplete: when the squash merge made no commit the
\* branch is kept and nothing is written.
FinalizeComplete_checking ==
    /\ pc = "finalize" /\ current_status = COMPLETE
    /\ \/ head' = head + 1 /\ incidents' = incidents
       \/ incidents < MaxIncidents /\ head' = head /\ incidents' = incidents + 1
    /\ checkedOut' = base_branch
    /\ branches' = IF head' = head THEN branches ELSE branches \ {task_id}
    /\ tasksFile' = IF head' = head THEN tasksFile
                    ELSE finalize_complete(tasksFile, task_id, head').live
    /\ junk' = IF head' = head THEN junk ELSE FALSE
    /\ doneFile' = IF head' = head THEN doneFile
                   ELSE doneFile \o finalize_complete(tasksFile, task_id, head').done
    /\ NoLocals
    /\ pc' = "poll"
    /\ UNCHANGED <<storeVars, userVars, console, daemon, ideaDefined, waiting_logged,
                   surfaced, answer>>

\* squash_merge: the commit is made or fails; the hash returned is HEAD's
\* Lines 1001-1012
FinalizeComplete ==
    /\ pc = "finalize" /\ current_status = COMPLETE
    /\ \/ head' = head + 1 /\ incidents' = incidents
       \/ incidents < MaxIncidents /\ head' = head /\ incidents' = incidents + 1
    /\ checkedOut' = base_branch
    /\ branches' = branches \ {task_id}
    /\ tasksFile' = finalize_complete(tasksFile, task_id, head').live
    /\ junk' = FALSE
    /\ doneFile' = doneFile \o finalize_complete(tasksFile, task_id, head').done
    /\ NoLocals
    /\ pc' = "poll"
    /\ UNCHANGED <<storeVars, userVars, console, daemon, ideaDefined, waiting_logged,
                   surfaced, answer>>

\* The mutant of FinalizeSplit: the branch is deleted only when its changes
\* were committed.
FinalizeSplit_merged_only ==
    /\ pc = "finalize" /\ current_status = SPLIT
    /\ \/ head' = head /\ incidents' = incidents
       \/ incidents < MaxIncidents /\ head' = head + 1 /\ incidents' = incidents + 1
    /\ checkedOut' = base_branch
    /\ branches' = IF head' = head THEN branches ELSE branches \ {task_id}
    /\ NoLocals
    /\ pc' = "poll"
    /\ UNCHANGED <<storeVars, tasksFile, junk, doneFile, userVars, console, daemon,
                   ideaDefined, waiting_logged, surfaced, answer>>

\* The mutant of FinalizeSplit: the split task is taken out of the live
\* store, its children staying.
FinalizeSplit_removing ==
    /\ pc = "finalize" /\ current_status = SPLIT
    /\ \/ head' = head /\ incidents' = incidents
       \/ incidents < MaxIncidents /\ head' = head + 1 /\ incidents' = incidents + 1
    /\ checkedOut' = base_branch
    /\ branches' = branches \ {task_id}
    /\ tasksFile' = keep_ids(tasksFile, Ids(tasksFile) \ {task_id})
    /\ junk' = FALSE
    /\ NoLocals
    /\ pc' = "poll"
    /\ UNCHANGED <<storeVars, doneFile, userVars, console, daemon,
                   ideaDefined, waiting_logged, surfaced, answer>>

\* Lines 1014-1030
FinalizeSplit ==
    /\ pc = "finalize" /\ current_status = SPLIT
    /\ \/ head' = head /\ incidents' = incidents
       \/ incidents < MaxIncidents /\ head' = head + 1 /\ incidents' = incidents + 1
    /\ checkedOut' = base_branch
    /\ branches' = branches \ {task_id}
    /\ NoLocals
    /\ pc' = "poll"
    /\ UNCHANGED <<storeVars, tasksFile, junk, doneFile, userVars, console, daemon,
                   ideaDefined, waiting_logged, surfaced, answer>>

\* The mutant of FinalizePreserve: the task is handed back as pending.
FinalizePreserve_resets ==
    /\ pc = "finalize" /\ current_status \notin {COMPLETE, SPLIT}
    /\ checkedOut' = base_branch
    /\ tasksFile' = set_status(tasksFile, task_id, PENDING)
    /\ junk' = FALSE
    /\ NoLocals
    /\ pc' = "poll"
    /\ UNCHANGED <<storeVars, doneFile, head, branches, userVars, console,
                   daemon, ideaDefined, waiting_logged, surfaced, answer, incidents>>

\* Lines 1032-1035
FinalizePreserve ==
    /\ pc = "finalize" /\ current_status \notin {COMPLETE, SPLIT}
    /\ checkedOut' = base_branch
    /\ NoLocals
    /\ pc' = "poll"
    /\ UNCHANGED <<storeVars, tasksFile, junk, doneFile, head, branches, userVars, console,
                   daemon, ideaDefined, waiting_logged, surfaced, answer, incidents>>

Init ==
    /\ pc = "poll"
    /\ tasksFile = <<>> /\ doneFile = <<>>
    /\ iterations = 0 /\ task_done = FALSE
    /\ head = 0 /\ branches = {} /\ checkedOut = base_branch
    /\ stopFile = FALSE /\ console_quit = FALSE
    /\ console_input_queue = <<>> /\ inbox \in {<<>>, <<0>>}
    /\ console \in BOOLEAN /\ daemon \in BOOLEAN /\ ideaDefined \in BOOLEAN
    /\ waiting_logged = FALSE /\ surfaced = FALSE /\ incidents = 0
    /\ answer = "none" /\ junk = FALSE
    /\ snap = <<>> /\ sel = NotCalled
    /\ StoreUnused
    /\ RetryUnused

Next ==
    \/ PollStop \/ PollQuit \/ PollTask
    \/ IdleInput \/ IdleBootstrap \/ IdleWait \/ IdleInit \/ IdleCheck
    \/ Claim \/ Branch \/ Iterate \/ IterateEnd
    \/ FinalizeComplete \/ FinalizeSplit \/ FinalizePreserve
    \/ AgentRun \/ RetrySleep
    \/ UserStop \/ UserLine \/ UserQuit \/ UserInbox

Spec == Init /\ [][Next]_vars

\* The steps of main and of what main waits for.  main is one thread: it
\* takes its next step, every run of the agent ends and every sleep ends.
MainNext ==
    \/ PollStop \/ PollQuit \/ PollTask
    \/ IdleInput \/ IdleBootstrap \/ IdleWait \/ IdleInit \/ IdleCheck
    \/ Claim \/ Branch \/ Iterate \/ IterateEnd
    \/ FinalizeComplete \/ FinalizeSplit \/ FinalizePreserve
    \/ AgentRun \/ RetrySleep

SpecLive == Init /\ [][Next]_vars /\ WF_vars(MainNext)

(***************************************************************************)
(* SpecCrash: main under kills.  The process is killed between two steps   *)
(* of main, or inside archive_task_tree after some of its appends and      *)
(* before its write_tasks, and is started again with the same parameters   *)
(* on the branch it was first started on: what lives in the process is     *)
(* lost, the files, the inbox and git stay.                                *)
(***************************************************************************)
\* main() is entered: lines 822-839
Restart ==
    /\ pc' = "poll"
    /\ snap' = <<>> /\ sel' = NotCalled /\ iterations' = 0 /\ task_done' = FALSE
    /\ rpc' = "idle" /\ prompt' = NoPrompt /\ attempt' = 0 /\ exit_code' = 0
    /\ error_type' = NONE /\ stderr' = BlankText /\ sleepFor' = 0
    /\ agentPrompt' = NoPrompt
    /\ waiting_logged' = FALSE /\ surfaced' = FALSE /\ answer' = "none"
    /\ console_quit' = FALSE /\ console_input_queue' = <<>>
    /\ checkedOut' = base_branch
    /\ UNCHANGED <<storeVars, junk, stopFile, inbox, console, daemon, ideaDefined>>

\* The process is killed between two steps of main while the agent is not
\* writing, and started again.
Crash ==
    /\ pc # "stopped" /\ incidents < MaxIncidents
    /\ incidents' = incidents + 1
    /\ Restart
    /\ UNCHANGED <<tasksFile, doneFile, head, branches>>

\* The process is killed in archive_task_tree (lines 370-381) after k of its
\* append_done calls, all of them or fewer, and before write_tasks; the
\* squash merge is made.  Then it is started again.
CrashArchiving ==
    /\ pc = "finalize" /\ current_status = COMPLETE /\ is_root_task(task_id)
    /\ incidents < MaxIncidents
    /\ incidents' = incidents + 1
    /\ head' = head + 1
    /\ branches' = branches \ {task_id}
    /\ LET done == archive_task_tree(tasksFile, task_id, head').done
       IN  \E k \in 1..Len(done) : doneFile' = doneFile \o SubSeq(done, 1, k)
    /\ tasksFile' = tasksFile
    /\ Restart

NextCrash == Next \/ Crash \/ CrashArchiving

SpecCrash == Init /\ [][NextCrash]_vars

(***************************************************************************)
(* SpecFiles: a process writes tasks.jsonl with write_tasks and            *)
(* create_bootstrap_task while another process reads it with read_tasks,   *)
(* each a system call or a buffered write at a time.  A file is an inode   *)
(* holding lines (task records); a path names an inode or nothing; a       *)
(* process that has opened a path holds the inode, whatever the path       *)
(* names later; flock is taken on the inode of the open file.              *)
(***************************************************************************)
MaxWrites == 2
MaxReads == 2

NoFile == 0

\* The task lists handed to write_tasks
WriteLists ==
    {<<>>, <<Task(Id1, COMPLETE)>>, <<Task(Id1, SPLIT), Task(Id1_1, PENDING)>>}

\* The contents a reader may be given in full
WholeContents == WriteLists \cup {bootstrap}

Content(ino) == IF ino = NoFile THEN <<>> ELSE disk.inodes[ino]

\* open(path, 'w'), the path naming ino: the file is truncated, or created
OpenedForWriting(ino) == IF ino = NoFile THEN Len(disk.inodes) + 1 ELSE ino
AfterOpenForWriting(ino) ==
    IF ino = NoFile THEN Append(disk.inodes, <<>>)
    ELSE [disk.inodes EXCEPT ![ino] = <<>>]

\* what the writer has handed to f.write
written == Len(Content(writer.f)) + Len(writer.buffer)

InitFiles ==
    /\ disk \in {[inodes |-> <<>>, TASKS_FILE |-> NoFile, temp_file |-> NoFile,
                  LOCK_EX |-> NoFile, LOCK_SH |-> NoFile]}
                \cup {[inodes |-> <<c>>, TASKS_FILE |-> 1, temp_file |-> NoFile,
                       LOCK_EX |-> NoFile, LOCK_SH |-> NoFile] : c \in WriteLists}
    /\ writer = [pc |-> "idle", f |-> NoFile, buffer |-> <<>>, tasks |-> <<>>, n |-> 0]
    /\ reader = [pc |-> "idle", f |-> NoFile, pos |-> 0, tasks |-> <<>>, n |-> 0]

\* write_tasks, lines 161-162: open(temp_file, 'w')
WtOpen ==
    /\ writer.pc = "idle" /\ writer.n < MaxWrites
    /\ \E tasks \in WriteLists :
           writer' = [pc |-> "flock", f |-> OpenedForWriting(disk.temp_file),
                      buffer |-> <<>>, tasks |-> tasks, n |-> writer.n + 1]
    /\ disk' = [disk EXCEPT !.inodes = AfterOpenForWriting(disk.temp_file),
                            !.temp_file = OpenedForWriting(disk.temp_file)]
    /\ UNCHANGED reader

\* Line 163: flock(f.fileno(), LOCK_EX), f being the temporary file; it
\* waits while another process holds a lock on that file
WtFlock ==
    /\ writer.pc = "flock" /\ disk.LOCK_SH # writer.f
    /\ disk' = [disk EXCEPT !.LOCK_EX = writer.f]
    /\ writer' = [writer EXCEPT !.pc = "write"]
    /\ UNCHANGED reader

\* Lines 165-166: f.write of the next task, into the buffer of f
WtWrite ==
    /\ writer.pc = "write" /\ written < Len(writer.tasks)
    /\ writer' = [writer EXCEPT !.buffer = Append(@, writer.tasks[written + 1])]
    /\ UNCHANGED <<disk, reader>>

\* The buffer of f is written to the file before f is closed (it is full).
Flush ==
    /\ writer.pc \in {"write", "bootstrap"} /\ writer.buffer # <<>>
    /\ disk' = [disk EXCEPT !.inodes[writer.f] = @ \o writer.buffer]
    /\ writer' = [writer EXCEPT !.buffer = <<>>]
    /\ UNCHANGED reader

\* Lines 167-168: flock(f.fileno(), LOCK_UN)
WtUnlock ==
    /\ writer.pc = "write" /\ written = Len(writer.tasks)
    /\ disk' = [disk EXCEPT !.LOCK_EX = NoFile]
    /\ writer' = [writer EXCEPT !.pc = "close"]
    /\ UNCHANGED reader

\* Line 162, the end of the with statement: f is closed, its buffer written
WtClose ==
    /\ writer.pc = "close"
    /\ disk' = [disk EXCEPT !.inodes[writer.f] = @ \o writer.buffer]
    /\ writer' = [writer EXCEPT !.pc = "rename", !.buffer = <<>>]
    /\ UNCHANGED reader

\* Line 169: temp_file.rename(TASKS_FILE)
WtRename ==
    /\ writer.pc = "rename"
    /\ disk' = [disk EXCEPT !.TASKS_FILE = disk.temp_file, !.temp_file = NoFile]
    /\ writer' = [writer EXCEPT !.pc = "idle", !.f = NoFile]
    /\ UNCHANGED reader

\* create_bootstrap_task, line 97: open(TASKS_FILE, 'w').  main calls it
\* when is_project_never_started has found tasks.jsonl missing or of size 0.
BsOpen ==
    /\ writer.pc = "idle" /\ writer.n < MaxWrites
    /\ Len(Content(disk.TASKS_FILE)) = 0
    /\ writer' = [pc |-> "bootstrap", f |-> OpenedForWriting(disk.TASKS_FILE),
                  buffer |-> <<>>, tasks |-> bootstrap, n |-> writer.n + 1]
    /\ disk' = [disk EXCEPT !.inodes = AfterOpenForWriting(disk.TASKS_FILE),
                            !.TASKS_FILE = OpenedForWriting(disk.TASKS_FILE)]
    /\ UNCHANGED reader

\* Line 98: f.write(json.dumps(bootstrap) + '\n'), into the buffer of f
BsWrite ==
    /\ writer.pc = "bootstrap" /\ written < Len(writer.tasks)
    /\ writer' = [writer EXCEPT !.buffer = Append(@, writer.tasks[written + 1])]
    /\ UNCHANGED <<disk, reader>>

\* Line 97, the end of the with statement: f is closed, its buffer written
BsClose ==
    /\ writer.pc = "bootstrap" /\ written = Len(writer.tasks)
    /\ disk' = [disk EXCEPT !.inodes[writer.f] = @ \o writer.buffer]
    /\ writer' = [writer EXCEPT !.pc = "idle", !.f = NoFile, !.buffer = <<>>]
    /\ UNCHANGED reader

\* read_tasks, lines 137-138: the file does not exist
RdMissing ==
    /\ reader.pc = "idle" /\ reader.n < MaxReads
    /\ disk.TASKS_FILE = NoFile
    /\ reader' = [reader EXCEPT !.tasks = <<>>, !.n = @ + 1]
    /\ UNCHANGED <<disk, writer>>

\* Lines 139-140: open(TASKS_FILE)
RdOpen ==
    /\ reader.pc = "idle" /\ reader.n < MaxReads
    /\ disk.TASKS_FILE # NoFile
    /\ reader' = [pc |-> "flock", f |-> disk.TASKS_FILE, pos |-> 0, tasks |-> <<>>,
                  n |-> reader.n + 1]
    /\ UNCHANGED <<disk, writer>>

\* Line 141: flock(f.fileno(), LOCK_SH); it waits while another process
\* holds the exclusive lock on that file
RdFlock ==
    /\ reader.pc = "flock" /\ disk.LOCK_EX # reader.f
    /\ disk' = [disk EXCEPT !.LOCK_SH = reader.f]
    /\ reader' = [reader EXCEPT !.pc = "read"]
    /\ UNCHANGED writer

\* Lines 143-149: the next line of f
RdLine ==
    /\ reader.pc = "read" /\ reader.pos < Len(Content(reader.f))
    /\ reader' = [reader EXCEPT !.tasks = Append(@, Content(reader.f)[reader.pos + 1]),
                                !.pos = @ + 1]
    /\ UNCHANGED <<disk, writer>>

\* Lines 143 and 154-156: the end of f; the lock is released, tasks returned
RdUnlock ==
    /\ reader.pc = "read" /\ reader.pos = Len(Content(reader.f))
    /\ disk' = [disk EXCEPT !.LOCK_SH = NoFile]
    /\ reader' = [reader EXCEPT !.pc = "idle", !.f = NoFile]
    /\ UNCHANGED writer

InitFilesSpec == InitFiles /\ TextUnused /\ RunUnused /\ ConUnused /\ SelUnused /\ RetryUnused /\ CtlUnused

NextFiles ==
    \/ WtOpen /\ UNCHANGED <<text, textLines, mem, loaded, run, con, selVars, retryVars, ctlVars>>
    \/ WtFlock /\ UNCHANGED <<text, textLines, mem, loaded, run, con, selVars, retryVars, ctlVars>>
    \/ WtWrite /\ UNCHANGED <<text, textLines, mem, loaded, run, con, selVars, retryVars, ctlVars>>
    \/ Flush /\ UNCHANGED <<text, textLines, mem, loaded, run, con, selVars, retryVars, ctlVars>>
    \/ WtUnlock /\ UNCHANGED <<text, textLines, mem, loaded, run, con, selVars, retryVars, ctlVars>>
    \/ WtClose /\ UNCHANGED <<text, textLines, mem, loaded, run, con, selVars, retryVars, ctlVars>>
    \/ WtRename /\ UNCHANGED <<text, textLines, mem, loaded, run, con, selVars, retryVars, ctlVars>>
    \/ BsOpen /\ UNCHANGED <<text, textLines, mem, loaded, run, con, selVars, retryVars, ctlVars>>
    \/ BsWrite /\ UNCHANGED <<text, textLines, mem, loaded, run, con, selVars, retryVars, ctlVars>>
    \/ BsClose /\ UNCHANGED <<text, textLines, mem, loaded, run, con, selVars, retryVars, ctlVars>>
    \/ RdMissing /\ UNCHANGED <<text, textLines, mem, loaded, run, con, selVars, retryVars, ctlVars>>
    \/ RdOpen /\ UNCHANGED <<text, textLines, mem, loaded, run, con, selVars, retryVars, ctlVars>>
    \/ RdFlock /\ UNCHANGED <<text, textLines, mem, loaded, run, con, selVars, retryVars, ctlVars>>
    \/ RdLine /\ UNCHANGED <<text, textLines, mem, loaded, run, con, selVars, retryVars, ctlVars>>
    \/ RdUnlock /\ UNCHANGED <<text, textLines, mem, loaded, run, con, selVars, retryVars, ctlVars>>

SpecFiles == InitFilesSpec /\ [][NextFiles]_vars

(***************************************************************************)
(* SpecRun: run_claude from Popen to its return.  The subprocess exits    *)
(* when it likes or never; it creates its session transcript when it       *)
(* likes or never; time passes in steps of ClockStep seconds while         *)
(* run_claude waits.                                                       *)
(***************************************************************************)
CLAUDE_TIMEOUT == 3600
ClockStep == 1200

\* how long the clock is followed, in steps
MaxTicks == 5

\* int(SESSION_WAIT_TIMEOUT / SESSION_CHECK_INTERVAL) is 100 in the source
MaxSessionChecks == 2

\* what the subprocess has written to stderr when it is gone
RunTexts ==
    {BlankText, [phrases |-> {}, other |-> TRUE]}
    \cup {[phrases |-> {ph}, other |-> FALSE] : ph \in {"429", "500", "timeout"}}

SIGTERM == 0 - 15

InitRun ==
    /\ run = [pc |-> "popen", process |-> "none", transcript |-> FALSE,
              new_session |-> FALSE, checks |-> 0, clock |-> 0, returncode |-> 0]
    /\ rpc = "run_claude" /\ stderr \in RunTexts
    /\ prompt = NoPrompt /\ attempt = 0 /\ exit_code = 0
    /\ error_type = NONE /\ sleepFor = 0 /\ agentPrompt = NoPrompt

\* Lines 510-520: subprocess.Popen
Popen ==
    /\ run.pc = "popen"
    /\ run' = [run EXCEPT !.pc = "find", !.process = "running"]
    /\ UNCHANGED <<exit_code, error_type>>

\* The subprocess creates its session transcript.
AgentTranscript ==
    /\ run.process = "running" /\ ~run.transcript
    /\ run' = [run EXCEPT !.transcript = TRUE]
    /\ UNCHANGED <<exit_code, error_type>>

\* The subprocess exits of itself.
AgentExits ==
    /\ run.process = "running" /\ run.pc # "grace"
    /\ \E code \in {0, 1} : run' = [run EXCEPT !.process = "exited", !.returncode = code]
    /\ UNCHANGED <<exit_code, error_type>>

\* Lines 525-531: one pass of the search for the new session file
FindSession ==
    /\ run.pc = "find" /\ run.checks < MaxSessionChecks
    /\ run' = IF run.transcript
              THEN [run EXCEPT !.new_session = TRUE, !.pc = "tail"]
              ELSE [run EXCEPT !.checks = @ + 1]
    /\ UNCHANGED <<exit_code, error_type>>

\* Lines 525 and 533-536: the search ends without a session file
FindNone ==
    /\ run.pc = "find" /\ run.checks = MaxSessionChecks
    /\ run' = [run EXCEPT !.pc = "wait"]
    /\ UNCHANGED <<exit_code, error_type>>

\* Line 538: time passes inside process.wait(timeout=CLAUDE_TIMEOUT)
WaitTick ==
    /\ run.pc = "wait" /\ run.process = "running"
    /\ run.clock < CLAUDE_TIMEOUT /\ run.clock < MaxTicks * ClockStep
    /\ run' = [run EXCEPT !.clock = @ + ClockStep]
    /\ UNCHANGED <<exit_code, error_type>>

\* Lines 538 and 547-550: process.wait returns, the subprocess being gone
WaitReturns ==
    /\ run.pc = "wait" /\ run.process = "exited"
    /\ exit_code' = run.returncode
    /\ error_type' = detect_error_type(stderr)
    /\ run' = [run EXCEPT !.pc = "returned"]

\* Lines 539-541: TimeoutExpired, process.terminate()
WaitExpires ==
    /\ run.pc = "wait" /\ run.process = "running" /\ run.clock >= CLAUDE_TIMEOUT
    /\ run' = [run EXCEPT !.pc = "grace"]
    /\ UNCHANGED <<exit_code, error_type>>

\* Lines 542-546: the subprocess goes on SIGTERM within 10 seconds or is
\* killed; run_claude returns the timeout error
Grace ==
    /\ run.pc = "grace"
    /\ \E how \in {"exited", "killed"} :
           run' = [run EXCEPT !.pc = "returned", !.process = how, !.returncode = SIGTERM]
    /\ exit_code' = 1
    /\ error_type' = TIMEOUT

\* Lines 556-652: one pass of the loop that tails the transcript, the
\* subprocess still running: process.poll() is None, the new lines are
\* printed, time.sleep(0.3)
TailPass ==
    /\ run.pc = "tail" /\ run.process = "running"
    /\ run.clock < MaxTicks * ClockStep
    /\ run' = [run EXCEPT !.clock = @ + ClockStep]
    /\ UNCHANGED <<exit_code, error_type>>

\* Lines 556 and 654-683: process.poll() is not None; the last lines are
\* printed and the result returned
TailReturns ==
    /\ run.pc = "tail" /\ run.process = "exited"
    /\ exit_code' = run.returncode
    /\ error_type' = detect_error_type(stderr)
    /\ run' = [run EXCEPT !.pc = "returned"]

InitRunSpec ==
    /\ InitRun /\ TextUnused /\ FilesUnused /\ ConUnused /\ SelUnused /\ CtlUnused

RunFrame ==
    UNCHANGED <<text, textLines, mem, loaded, fileVars, con, selVars, ctlVars,
                rpc, prompt, attempt, stderr, sleepFor, agentPrompt>>

NextRun ==
    \/ Popen /\ RunFrame
    \/ AgentTranscript /\ RunFrame
    \/ AgentExits /\ RunFrame
    \/ FindSession /\ RunFrame
    \/ FindNone /\ RunFrame
    \/ WaitTick /\ RunFrame
    \/ WaitReturns /\ RunFrame
    \/ WaitExpires /\ RunFrame
    \/ Grace /\ RunFrame
    \/ TailPass /\ RunFrame
    \/ TailReturns /\ RunFrame

SpecRun == InitRunSpec /\ [][NextRun]_vars

(***************************************************************************)
(* SpecConsole: the console reader thread and main around                  *)
(* get_console_input, a statement at a time.  The user types lines, the     *)
(* reader thread appends each under console_lock; main, at a poll or in     *)
(* the task loop, calls get_console_input (lock, test, join, clear,         *)
(* unlock) and hands what it got to run_claude_with_retry in a prompt.      *)
(* The messages are numbered as they are typed.  When main leaves its loop  *)
(* the process ends, the reader thread with it.                             *)
(***************************************************************************)
MaxLines == 3

InitConsole ==
    con = [main |-> "poll",        \* where main is
           reader |-> "prompt",    \* where console_reader_thread is
           console_lock |-> "free",
           console_input_queue |-> <<>>,
           console_quit |-> FALSE,
           line |-> 0,             \* reader: line.strip()
           typed |-> 0,            \* how many lines the user has typed
           result |-> <<>>,        \* get_console_input: result
           returned |-> <<>>,      \* history: what the calls of get_console_input returned
           prompts |-> <<>>]       \* history: the user input of the prompts handed
                                   \* to run_claude_with_retry

\* prompt_session.prompt returns a line that is not blank (line 228)
ReaderLine ==
    /\ con.main # "stopped" /\ con.reader = "prompt" /\ con.typed < MaxLines
    /\ con' = [con EXCEPT !.line = con.typed + 1, !.typed = con.typed + 1,
                          !.reader = "lock"]

\* with console_lock: (line 231)
ReaderLock ==
    /\ con.main # "stopped" /\ con.reader = "lock" /\ con.console_lock = "free"
    /\ con' = [con EXCEPT !.console_lock = "reader", !.reader = "locked"]

\* console_input_queue.append(line.strip()), and the lock is released
ReaderAppend ==
    /\ con.main # "stopped" /\ con.reader = "locked"
    /\ con' = [con EXCEPT !.console_input_queue = Append(@, con.line),
                          !.console_lock = "free", !.reader = "prompt"]

\* EOFError or KeyboardInterrupt (lines 234-241)
ReaderEOF ==
    /\ con.main # "stopped" /\ con.reader = "prompt"
    /\ con' = [con EXCEPT !.console_quit = TRUE, !.reader = "ended"]

\* Lines 843-846: .stop is there
ConsoleStop ==
    /\ con.main = "poll"
    /\ con' = [con EXCEPT !.main = "stopped"]

\* Lines 848-850
ConsoleQuit ==
    /\ con.main = "poll" /\ con.console_quit
    /\ con' = [con EXCEPT !.main = "stopped"]

\* Lines 858 and 948: get_console_input is called
GciCall ==
    /\ con.main = "poll" /\ ~con.console_quit
    /\ con' = [con EXCEPT !.main = "lock"]

\* The mutant of GciLock: get_console_input does not take console_lock.
GciLock_lockless ==
    /\ con.main = "lock"
    /\ con' = [con EXCEPT !.main = "locked"]

\* with console_lock: (line 211)
GciLock ==
    /\ con.main = "lock" /\ con.console_lock = "free"
    /\ con' = [con EXCEPT !.console_lock = "main", !.main = "locked"]

\* if not console_input_queue: return None (lines 212-213); main has no user
\* input from the console and goes on to its next poll or iteration
GciNone ==
    /\ con.main = "locked" /\ con.console_input_queue = <<>>
    /\ con' = [con EXCEPT !.console_lock = "free", !.main = "poll"]

\* result = '\n'.join(console_input_queue) (line 215)
GciJoin ==
    /\ con.main = "locked" /\ con.console_input_queue # <<>>
    /\ con' = [con EXCEPT !.result = con.console_input_queue, !.main = "joined"]

\* console_input_queue.clear() (line 216)
GciClear ==
    /\ con.main = "joined"
    /\ con' = [con EXCEPT !.console_input_queue = <<>>, !.main = "cleared"]

\* return result (line 217), and the lock is released
GciReturn ==
    /\ con.main = "cleared"
    /\ con' = [con EXCEPT !.console_lock = "free", !.main = "got",
                          !.returned = Append(@, con.result)]

\* Lines 863-874 and 960-962: the prompt is built with the user input and
\* run_claude_with_retry is called
ConsoleCall ==
    /\ con.main = "got"
    /\ con' = [con EXCEPT !.prompts = Append(@, con.result), !.main = "call"]

\* The mutant of ConsoleReturn: after a failure the user input of the prompt
\* is put back at the head of the queue.
ConsoleReturn_requeueing ==
    /\ con.main = "call"
    /\ \E code \in {0, 1} :
          con' = [con EXCEPT !.main = "poll", !.result = <<>>,
                             !.console_input_queue =
                                 IF code # 0 THEN con.result \o @ ELSE @]

\* run_claude_with_retry returns with exit code 0 or not; main looks at
\* the code or not and goes on to its next poll or iteration (lines 874-875,
\* 962-969), its user_input and prompt forgotten
ConsoleReturn ==
    /\ con.main = "call"
    /\ \E code \in {0, 1} : con' = [con EXCEPT !.main = "poll", !.result = <<>>]

InitConsoleSpec ==
    /\ InitConsole /\ TextUnused /\ FilesUnused /\ RunUnused /\ SelUnused
    /\ RetryUnused /\ CtlUnused

ConsoleFrame ==
    UNCHANGED <<text, textLines, mem, loaded, fileVars, run, selVars, retryVars, ctlVars>>

NextConsole ==
    \/ ReaderLine /\ ConsoleFrame
    \/ ReaderLock /\ ConsoleFrame
    \/ ReaderAppend /\ ConsoleFrame
    \/ ReaderEOF /\ ConsoleFrame
    \/ ConsoleStop /\ ConsoleFrame
    \/ ConsoleQuit /\ ConsoleFrame
    \/ GciCall /\ ConsoleFrame
    \/ GciLock /\ ConsoleFrame
    \/ GciNone /\ ConsoleFrame
    \/ GciJoin /\ ConsoleFrame
    \/ GciClear /\ ConsoleFrame
    \/ GciReturn /\ ConsoleFrame
    \/ ConsoleCall /\ ConsoleFrame
    \/ ConsoleReturn /\ ConsoleFrame

SpecConsole == InitConsoleSpec /\ [][NextConsole]_vars

(***************************************************************************)
(* SpecArchive: archive_task_tree as main calls it, on every live store of *)
(* at most MaxArchive records over ArchiveIds (ids repeated or not, in     *)
(* every file order) and every complete root task of it as the current     *)
(* task.  snap is main's local `tasks`, the list read before the call.     *)
(***************************************************************************)
MaxArchive == 4

Id10_1 == <<"1", "0", ".", "1">>

ArchiveIds == {Id1, Id1_1, Id10, Id10_1}

ArchiveTasks == [id : ArchiveIds, title : {"t"}, status : {PENDING, COMPLETE}]

\* tasks = read_tasks(); current = get_task_by_id(tasks, task_id), a root
\* task whose status is complete
InitArchive ==
    /\ tasksFile \in SeqsUpTo(ArchiveTasks, MaxArchive)
    /\ snap = tasksFile
    /\ \E i \in DOMAIN tasksFile :
          /\ is_root_task(tasksFile[i].id)
          /\ tasksFile[i] = get_task_by_id(tasksFile, tasksFile[i].id)
          /\ tasksFile[i].status = COMPLETE
          /\ sel = [index |-> i, task |-> tasksFile[i], mode |-> "work"]
    /\ pc = "finalize"
    /\ doneFile = <<>>

\* archive_task_tree(tasks, task_id, commit_hash)
Archive ==
    /\ pc = "finalize"
    /\ LET archived == archive_task_tree(snap, task_id, head)
       IN  /\ doneFile' = doneFile \o archived.done
           /\ tasksFile' = archived.live
    /\ pc' = "archived"
    /\ UNCHANGED <<selVars, storeVars, retryVars, junk, iterations, task_done, gitVars,
                   userVars, console, daemon, ideaDefined, waiting_logged, surfaced,
                   answer, incidents>>

InitArchiveSpec ==
    /\ InitArchive /\ StoreUnused /\ RetryUnused
    /\ iterations = 0 /\ task_done = FALSE
    /\ head = 0 /\ branches = {} /\ checkedOut = base_branch
    /\ stopFile = FALSE /\ console_quit = FALSE
    /\ console_input_queue = <<>> /\ inbox = <<>>
    /\ console = FALSE /\ daemon = FALSE /\ ideaDefined = FALSE
    /\ waiting_logged = FALSE /\ surfaced = FALSE /\ incidents = 0
    /\ answer = "none" /\ junk = FALSE

NextArchive == Archive

SpecArchive == InitArchiveSpec /\ [][NextArchive]_vars

(***************************************************************************)
(* Claims about the selector, stated without get_children and first_index. *)
(***************************************************************************)
Called == sel.mode # "not called"

\* c is p, a dot, and one more segment without a dot
IsDirectChildId(c, p) ==
    /\ Len(c) > Len(p) + 1
    /\ SubSeq(c, 1, Len(p)) = p
    /\ c[Len(p) + 1] = "."
    /\ \A k \in (Len(p) + 2)..Len(c) : c[k] # "."

DirectChildrenAt(i) == {j \in 1..Len(snap) : IsDirectChildId(snap[j].id, snap[i].id)}

\* snap[i] is a split task with a direct child and all direct children complete
ReadyAt(i) ==
    /\ snap[i].status = SPLIT
    /\ DirectChildrenAt(i) # {}
    /\ \A j \in DirectChildrenAt(i) : snap[j].status = COMPLETE

HasStatus(st) == \E i \in 1..Len(snap) : snap[i].status = st

StatusAt(st) == {i \in 1..Len(snap) : snap[i].status = st}

ReadySet == {i \in 1..Len(snap) : ReadyAt(i)}

\* i is the first position of snap among the positions S
IsFirst(i, S) == i \in S /\ \A j \in 1..(i - 1) : j \notin S

Returned(i, mode) == sel.index = i /\ sel.task = snap[i] /\ sel.mode = mode

\* C1: get_next_task returns the first active task (mode work) when the
\* snapshot holds one, otherwise the first pending task (mode work) when it
\* holds one, and only otherwise a split task (mode verify), the first one
\* that is ready, or nothing; the file order of the statuses does not matter.
C1_SelectorPriority ==
    Called =>
        /\ HasStatus(ACTIVE) =>
               \E i \in 1..Len(snap) :
                   IsFirst(i, StatusAt(ACTIVE)) /\ Returned(i, "work")
        /\ (~HasStatus(ACTIVE) /\ HasStatus(PENDING)) =>
               \E i \in 1..Len(snap) :
                   IsFirst(i, StatusAt(PENDING)) /\ Returned(i, "work")
        /\ (~HasStatus(ACTIVE) /\ ~HasStatus(PENDING)) =>
               \/ sel = [index |-> 0, task |-> NoTask, mode |-> None]
               \/ \E i \in 1..Len(snap) :
                      /\ snap[i].status = SPLIT
                      /\ IsFirst(i, ReadySet)
                      /\ Returned(i, "verify")
        /\ sel.mode = "verify" => (~HasStatus(ACTIVE) /\ ~HasStatus(PENDING))

\* C1 witness: the active task is returned although a pending task and a
\* ready split task precede it in the file.
C1_Witness ==
    /\ Called
    /\ Len(snap) = 3
    /\ snap[1].status = PENDING
    /\ snap[2].status = ACTIVE
    /\ snap[3].status = ACTIVE
    /\ Returned(2, "work")

\* C1 witness, second case: a ready split task precedes the active task.
C1_WitnessSplitFirst ==
    /\ Called
    /\ Len(snap) = 3
    /\ ReadyAt(1)
    /\ snap[3].status = ACTIVE
    /\ Returned(3, "work")

\* C2: a split task returned with mode verify has at least one direct child
\* in the snapshot and every direct child of it is complete.
C2_VerifyOnlyWhenReady ==
    (Called /\ sel.mode = "verify") =>
        /\ sel.index \in 1..Len(snap)
        /\ snap[sel.index].status = SPLIT
        /\ DirectChildrenAt(sel.index) # {}
        /\ \A j \in DirectChildrenAt(sel.index) : snap[j].status = COMPLETE

\* C2 witness: task 1 is split with the incomplete child 1.1 and is passed
\* over; task 1.1, split with its only child complete, is returned for verify.
C2_Witness ==
    /\ Called
    /\ Len(snap) = 3
    /\ snap[1].id = Id1 /\ snap[1].status = SPLIT
    /\ snap[2].id = Id1_1 /\ snap[2].status = SPLIT
    /\ snap[3].id = Id1_1_1 /\ snap[3].status = COMPLETE
    /\ Returned(2, "verify")

\* C3 as stated: every ready split task is what get_next_task returns.
C3_Original ==
    Called => \A i \in 1..Len(snap) : ReadyAt(i) => Returned(i, "verify")

\* C3 amended: a ready split task is returned with mode verify when the
\* snapshot holds no active and no pending task and no ready split task
\* precedes it, whatever the status of its deeper descendants.
C3_ReadySplitSelected ==
    (Called /\ ~HasStatus(ACTIVE) /\ ~HasStatus(PENDING)) =>
        \A i \in 1..Len(snap) : IsFirst(i, ReadySet) => Returned(i, "verify")

\* C3 witness: task 1 is returned for verify while its grandchild 1.1.1 is
\* split, not complete.
C3_Witness ==
    /\ Called
    /\ Len(snap) = 3
    /\ snap[1].id = Id1 /\ snap[1].status = SPLIT
    /\ snap[2].id = Id1_1 /\ snap[2].status = COMPLETE
    /\ snap[3].id = Id1_1_1 /\ snap[3].status = SPLIT
    /\ Returned(1, "verify")

(***************************************************************************)
(* Claims about the task store                                             *)
(***************************************************************************)
WasRead == loaded.state = "read"

\* The records of the lines of kind "valid", in file order
RECURSIVE ValidTasksOf(_)
ValidTasksOf(lines) ==
    IF lines = <<>> THEN <<>>
    ELSE (IF Head(lines).kind = "valid" THEN <<Head(lines).task>> ELSE <<>>)
            \o ValidTasksOf(Tail(lines))

Unreadable(lines) ==
    Cardinality({k \in 1..Len(lines) : lines[k].kind \in {"skipped", "nonrecord"}})

\* C6: read_tasks after write_tasks(tasks) returns tasks: the same records
\* in the same order with the same fields, no line skipped, for every list of
\* valid records, the empty one included.
C6_RoundTrip ==
    (WasRead /\ loaded.wrote) =>
        /\ ~loaded.raised
        /\ loaded.tasks = mem
        /\ loaded.warnings = 0

\* C6 witness: two records were written and read back, their titles a
\* quote followed by a newline, one of them with a commit field.
C6_Witness ==
    /\ WasRead /\ loaded.wrote
    /\ Len(mem) = 2
    /\ dict_get(mem[1].dict, <<"title">>) = Str(<<QUOTE, NL>>)
    /\ <<"commit">> \in dict_keys(mem[2].dict)
    /\ loaded.tasks = mem

\* C6 witness: the empty list was written and read back.
C6_WitnessEmpty ==
    /\ WasRead /\ loaded.wrote
    /\ mem = <<>> /\ text = <<>>
    /\ loaded.tasks = <<>>

\* C7: read_tasks never raises: each line that is not blank and is no valid
\* record (no JSON, no object with id, title and status, a status outside
\* VALID) is skipped with one warning, and the valid records are returned
\* in file order.
C7_NeverAborts ==
    WasRead =>
        /\ ~loaded.raised
        /\ loaded.tasks = ValidTasksOf(textLines)
        /\ loaded.warnings = Unreadable(textLines)

\* C7, the part the code keeps: a file whose lines are blank, valid, no JSON
\* or objects with hashable values is read without an exception.
C7_CaughtLinesSkipped ==
    (WasRead /\ \A k \in 1..Len(textLines) : textLines[k].kind # "nonrecord") =>
        /\ ~loaded.raised
        /\ loaded.tasks = ValidTasksOf(textLines)
        /\ loaded.warnings = Unreadable(textLines)

(***************************************************************************)
(* Claims about run_claude_with_retry                                      *)
(***************************************************************************)
\* The last run_claude of the call in progress failed with the given type.
LastFailed(etype) == rpc # "idle" /\ exit_code # 0 /\ error_type = etype

\* C8: a rate-limited failure is never returned to the caller: after it
\* run_claude_with_retry sleeps RATE_LIMIT_WAIT and then runs the agent again
\* with the same prompt.
C8_RateLimitNeverAbandoned ==
    LastFailed(RATE_LIMIT) =>
        \/ rpc = "sleep" /\ sleepFor = RATE_LIMIT_WAIT
        \/ rpc = "run"

\* C9: once run_claude returned a non-zero exit code with token_limit,
\* run_claude_with_retry has returned: it is not sleeping and not about to
\* run the agent again.
C9_TokenLimitReturnsAtOnce ==
    LastFailed(TOKEN_LIMIT) => (rpc = "ret" /\ sleepFor = 0)

\* C9 witness: the third run of a call failed with "insufficient credit"
\* after two retried failures, and the call returned it.
C9_Witness ==
    /\ LastFailed(TOKEN_LIMIT)
    /\ attempt = 2
    /\ stderr.phrases = {"insufficient", "credit"}
    /\ agentPrompt = prompt
    /\ rpc = "ret"

(***************************************************************************)
(* Claims about finalization, stated on the two files before and after the *)
(* step, without archive_task_tree and its helpers.                        *)
(***************************************************************************)
\* the id c lies under the id p, at any depth
IsDescendantId(c, p) ==
    /\ Len(c) > Len(p) + 1
    /\ SubSeq(c, 1, Len(p)) = p
    /\ c[Len(p) + 1] = "."

IsRootId(id) == \A k \in 1..Len(id) : id[k] # "."

\* the claimed task is in tasks.jsonl with status complete
ClaimedIsComplete ==
    \E i \in DOMAIN tasksFile :
        tasksFile[i].id = task_id /\ tasksFile[i].status = COMPLETE

\* the step is the finalization of the claim cycle
Finalizing == pc = "finalize" /\ pc' = "poll"

\* the ids of the claimed task and of the tasks under it in tasks.jsonl
TreeIds ==
    {task_id} \cup {id \in Ids(tasksFile) : IsDescendantId(id, task_id)}

ArchivedAs(id) == {j \in DOMAIN doneFile' : doneFile'[j].id = id}

\* C4: the finalization of a root task whose status is complete leaves in
\* tasks.jsonl neither the root nor any task under it, at any depth, and
\* leaves in tasks-done.jsonl exactly one record for each of them, every one
\* with the commit hash squash_merge returned, the head of the base branch.
C4_ArchiveAtomicity ==
    [][(Finalizing /\ ClaimedIsComplete /\ IsRootId(task_id)) =>
          /\ \A i \in DOMAIN tasksFile' : tasksFile'[i].id \notin TreeIds
          /\ \A id \in TreeIds :
                 /\ Cardinality(ArchivedAs(id)) = 1
                 /\ \A j \in ArchivedAs(id) : doneFile'[j].commit = head']_vars

\* A root, its subtask and the subtask of that one have been archived
\* together and are gone from tasks.jsonl.
C4_Witness ==
    /\ pc = "poll"
    /\ \E i, j, k \in DOMAIN doneFile :
           /\ doneFile[i].id = Id1 /\ doneFile[j].id = Id1_1 /\ doneFile[k].id = Id1_1_1
           /\ doneFile[i].commit = doneFile[j].commit
           /\ doneFile[j].commit = doneFile[k].commit
    /\ Ids(tasksFile) \cap {Id1, Id1_1, Id1_1_1} = {}

\* the record r with its commit field set to h and nothing else changed
WithCommit(r, q, h) ==
    /\ DOMAIN q = DOMAIN r \cup {"commit"}
    /\ q.commit = h
    /\ \A f \in DOMAIN r \ {"commit"} : q[f] = r[f]

\* C5: the finalization of a task that is not a root and whose status is
\* complete appends nothing to tasks-done.jsonl and leaves every record of
\* tasks.jsonl where it was and as it was, but for the commit field of that
\* task, which is set.
C5_NonRootStaysLive ==
    [][(Finalizing /\ ClaimedIsComplete /\ ~IsRootId(task_id)) =>
          /\ doneFile' = doneFile
          /\ DOMAIN tasksFile' = DOMAIN tasksFile
          /\ \A i \in DOMAIN tasksFile :
                 IF tasksFile[i].id = task_id
                 THEN WithCommit(tasksFile[i], tasksFile'[i], head')
                 ELSE tasksFile'[i] = tasksFile[i]]_vars

\* A subtask has been finalized as complete: it has its commit, and its
\* parent and its sibling are with it in tasks.jsonl, nothing archived.
C5_Witness ==
    /\ pc = "poll" /\ doneFile = <<>>
    /\ \E i, j, k \in DOMAIN tasksFile :
           /\ tasksFile[i].id = Id1 /\ tasksFile[j].id = Id1_1 /\ tasksFile[k].id = Id1_2
           /\ tasksFile[j].status = COMPLETE /\ "commit" \in DOMAIN tasksFile[j]
           /\ "commit" \notin DOMAIN tasksFile[k]

(***************************************************************************)
(* Claims about the controller and the failures of the agent.              *)
(***************************************************************************)
\* the step is a run of the agent
AgentInvoked == rpc = "run" /\ rpc' # "run"

\* C10: once run_claude_with_retry has returned token_limit to main, from
\* the task loop, the idle handling of user input, the setup prompt or the
\* completion check, the agent is not run again.
C10_TokenLimitHalts == [][surfaced => ~AgentInvoked]_vars

(***************************************************************************)
(* Claims about the failures of the agent inside the task loop.            *)
(***************************************************************************)
Backoff == {API_ERROR, UNKNOWN}

\* The task loop gets a failure of one of the error types back.
WorkFailed(etypes) ==
    /\ pc = "call" /\ prompt.kind = "task" /\ rpc' = "idle"
    /\ exit_code' # 0 /\ error_type' \in etypes

\* C11: while the runs of a call fail with api_error or unknown,
\* run_claude_with_retry sleeps 5, 15, 30 and 60 seconds, one sleep after
\* each of the first four runs and in that order; the failure of the fifth
\* run is returned with no sleep after it, and the task loop, which counted
\* the call as one iteration, goes on to its next iteration.
C11_BackoffThenContinue ==
    [][/\ (rpc' = "sleep" /\ error_type' \in Backoff) =>
             /\ attempt' < Len(API_RETRY_DELAYS)
             /\ sleepFor' = API_RETRY_DELAYS[attempt' + 1]
             /\ attempt' = IF rpc = "sleep" THEN attempt + 1 ELSE 0
       /\ WorkFailed(Backoff) =>
             /\ rpc = "sleep" /\ attempt = Len(API_RETRY_DELAYS) - 1
             /\ sleepFor = 60
             /\ pc' = "iterate" /\ iterations' = iterations]_vars

\* The task loop is about to go on after five runs that failed with api_error.
C11_Witness ==
    /\ pc = "iterate" /\ iterations = 1
    /\ exit_code = 1 /\ error_type = API_ERROR

C11_WitnessUnknown ==
    /\ pc = "iterate" /\ iterations = MAX_ITERATIONS
    /\ exit_code = 1 /\ error_type = UNKNOWN

\* C12: a run that fails with timeout is never followed by a sleep: the
\* failure is returned after that one run, and the task loop goes on to the
\* next iteration of the task it is working on; it is neither left nor is
\* the controller stopped.
C12_TimeoutGoesOn ==
    [][/\ rpc' = "sleep" => error_type' # TIMEOUT
       /\ WorkFailed({TIMEOUT}) =>
             /\ rpc = "run" /\ attempt = 0
             /\ pc' = "iterate" /\ iterations' = iterations
             /\ sel' = sel]_vars

\* The task loop is about to go on after a run that timed out.
C12_Witness ==
    /\ pc = "iterate" /\ iterations = 1
    /\ exit_code = 1 /\ error_type = TIMEOUT

(***************************************************************************)
(* Claims about detect_error_type, stated over the groups of phrases.      *)
(***************************************************************************)
CategoryOrder == <<RATE_LIMIT, TOKEN_LIMIT, API_ERROR, TIMEOUT>>

Keywords(category) ==
    CASE category = RATE_LIMIT -> {"rate limit", "429"}
      [] category = TOKEN_LIMIT -> {"insufficient", "credit", "quota"}
      [] category = API_ERROR -> {"500", "internal server error", "api_error"}
      [] category = TIMEOUT -> {"timeout"}

\* the places in CategoryOrder of the groups with a phrase in the text
Matching(diag) ==
    {k \in DOMAIN CategoryOrder : diag.phrases \cap Keywords(CategoryOrder[k]) # {}}

\* C13: detect_error_type returns none for a text that is empty or white
\* space only, otherwise the earliest category in the order rate_limit,
\* token_limit, api_error, timeout with a phrase in the text, whatever other
\* categories match, and unknown when no category matches.
C13_FirstCategoryWins ==
    rpc = "detected" =>
        IF stderr.phrases = {} /\ ~stderr.other THEN error_type = NONE
        ELSE IF Matching(stderr) = {} THEN error_type = UNKNOWN
        ELSE \E k \in Matching(stderr) :
                /\ \A j \in Matching(stderr) : k <= j
                /\ error_type = CategoryOrder[k]

\* A text with a phrase of every category is classified rate_limit.
C13_Witness ==
    /\ rpc = "detected" /\ Cardinality(Matching(stderr)) = 4
    /\ error_type = RATE_LIMIT

C13_WitnessCredit ==
    /\ rpc = "detected" /\ Matching(stderr) = {2, 3, 4}
    /\ error_type = TOKEN_LIMIT

(***************************************************************************)
(* Claims about the claim cycle.                                           *)
(***************************************************************************)
POLLING == pc = "poll"
CLAIMED == pc = "claim"
BRANCHED == pc = "branch"
ITERATING == pc = "iterate" \/ (pc = "call" /\ prompt.kind = "task")
FINALIZING == pc = "finalize"
STOPPED == pc = "stopped"
IdleCall == pc = "call" /\ prompt.kind # "task"

\* The task of the cycle is active in tasks.jsonl.
PersistedActive == get_task_by_id(tasksFile, task_id).status = ACTIVE

OnTaskBranch == task_id \in branches /\ checkedOut = task_id

WorkCall == pc = "iterate" /\ pc' = "call"

\* C15: every call of run_claude_with_retry in the task loop is counted by
\* iterations, which starts at 0 in a claim cycle, only grows in it and is
\* at most MAX_ITERATIONS, so that a cycle makes at most 20 calls whatever
\* their results; and the finalization of a cycle that made 20 calls and
\* finds the task neither complete nor split checks out the base branch,
\* keeps the task branch and both files as they are, the task being active
\* and the one the next poll selects.
C15_CeilingPreserves ==
    [][/\ (BRANCHED /\ ~BRANCHED') => iterations' = 0
       /\ WorkCall => (iterations' = iterations + 1 /\ iterations' <= MAX_ITERATIONS)
       /\ (ITERATING /\ ITERATING' /\ ~WorkCall) => iterations' = iterations
       /\ (Finalizing /\ iterations = MAX_ITERATIONS
             /\ current_status \notin {COMPLETE, SPLIT}) =>
             /\ checkedOut' = base_branch
             /\ task_id \in branches /\ branches' = branches
             /\ tasksFile' = tasksFile /\ doneFile' = doneFile
             /\ get_task_by_id(tasksFile', task_id).status = ACTIVE
             /\ get_next_task(tasksFile').task.id = task_id]_vars

\* Back at polling after twenty calls none of which failed: the task is
\* active and its branch is kept.
C15_Witness ==
    /\ POLLING /\ incidents = 0 /\ checkedOut = base_branch
    /\ branches = {Id1} /\ get_next_task(tasksFile).task = Task(Id1, ACTIVE)

\* C16: the finalization of a task found split appends nothing to the
\* archive and leaves the live store as it is, the task and its children in
\* it, and the task branch is gone after it whether a commit was made on
\* the base branch (head moves) or not.
C16_SplitKeepsStore ==
    [][(Finalizing /\ current_status = SPLIT) =>
          /\ doneFile' = doneFile
          /\ tasksFile' = tasksFile
          /\ get_task_by_id(tasksFile', task_id).status = SPLIT
          /\ get_children(tasksFile', task_id) = get_children(tasksFile, task_id)
          /\ task_id \in branches /\ task_id \notin branches'
          /\ head' \in {head, head + 1}]_vars

\* Back at polling after the split of task 1 into 1.1 and 1.2 was finalized
\* with no commit.
C16_Witness ==
    /\ POLLING /\ head = 0 /\ branches = {} /\ doneFile = <<>>
    /\ tasksFile = <<Task(Id1, SPLIT), Task(Id1_1, PENDING), Task(Id1_2, PENDING)>>

\* The same with the commit "Split into subtasks".
C16_WitnessCommit ==
    /\ POLLING /\ head = 1 /\ branches = {} /\ doneFile = <<>>
    /\ tasksFile = <<Task(Id1, SPLIT), Task(Id1_1, PENDING), Task(Id1_2, PENDING)>>

(***************************************************************************)
(* Claims about the records of the live store.                             *)
(***************************************************************************)
StatusOf(ts, id) == get_task_by_id(ts, id).status

\* the status of the record id before and after the step, where it changes
StatusMoves ==
    {<<tasksFile[m[1]].status, tasksFile'[m[2]].status>> :
        m \in {n \in (DOMAIN tasksFile) \X (DOMAIN tasksFile') :
                    /\ tasksFile[n[1]].id = tasksFile'[n[2]].id
                    /\ tasksFile[n[1]].status # tasksFile'[n[2]].status}}

Forward == {<<PENDING, ACTIVE>>, <<ACTIVE, COMPLETE>>, <<ACTIVE, SPLIT>>}

\* The controller claims a split task for verification.
VerifyClaim == CLAIMED /\ BRANCHED' /\ sel.mode = "verify"

\* C17 as stated: the status of a record changes only from pending to
\* active and from active to complete or split.
C17_Original == [][StatusMoves \subseteq Forward]_vars

\* C17: the status of a record changes only from pending to active, from
\* active to complete or split, and from split to active, which is what the
\* claim of a split task for verification does to that task and only to it;
\* no step sets a status to pending or changes the status complete.
C17_StatusMoves ==
    [][/\ StatusMoves \subseteq (Forward \cup {<<SPLIT, ACTIVE>>})
       /\ <<SPLIT, ACTIVE>> \in StatusMoves =>
             /\ VerifyClaim
             /\ verify_ready(tasksFile, get_task_by_id(tasksFile, task_id))
             /\ \A id \in Ids(tasksFile) \ {task_id} :
                    StatusOf(tasksFile', id) = StatusOf(tasksFile, id)
       /\ VerifyClaim => <<SPLIT, ACTIVE>> \in StatusMoves]_vars

\* The split task 1, its child complete, has been claimed for verification
\* and is active in the live store.
C17_Witness ==
    /\ BRANCHED /\ sel.mode = "verify" /\ task_id = Id1
    /\ StatusOf(tasksFile, Id1) = ACTIVE
    /\ StatusOf(tasksFile, Id1_1) = COMPLETE

AgentStep == pc = "call"

\* The step leaves the live store without a record it held.
Removes ==
    \/ Ids(tasksFile) \ Ids(tasksFile') # {}
    \/ Len(tasksFile') < Len(tasksFile)

\* C19: main takes a record out of the live store only in the finalization
\* of a root task found complete; no other step of main removes one: not the
\* claim, not the finalization of a task that is not a root, complete or
\* split, not that of a split root, not that of a task left active at the
\* ceiling.
C19_RemovedOnlyByRootArchival ==
    [][/\ (Removes /\ ~AgentStep) => (Finalizing /\ ClaimedIsComplete /\ IsRootId(task_id))
       /\ (CLAIMED /\ ~CLAIMED') => ~Removes
       /\ (Finalizing /\ (~IsRootId(task_id) \/ ~ClaimedIsComplete)) =>
             /\ Len(tasksFile') = Len(tasksFile)
             /\ \A i \in DOMAIN tasksFile : tasksFile'[i].id = tasksFile[i].id]_vars

\* The archival of the root 0 has removed it; the finalizations of the split
\* root 1 and of its complete child 1.1 have left both in the live store.
C19_Witness ==
    /\ POLLING /\ Ids(doneFile) = {Id0} /\ Len(tasksFile) = 2
    /\ StatusOf(tasksFile, Id1) = SPLIT
    /\ StatusOf(tasksFile, Id1_1) = COMPLETE
    /\ "commit" \in DOMAIN get_task_by_id(tasksFile, Id1_1)

\* the ids of the live store under the task id, at any depth
Under(id) == {d \in Ids(tasksFile) : IsDescendantId(d, id)}

\* The finalization of a task found complete that has tasks under it: a
\* task that was split.
SplitTaskCompleted == Finalizing /\ ClaimedIsComplete /\ Under(task_id) # {}

\* The tasks under a task that is not complete stay in the live store: no
\* step of main takes one out.
DescendantsRetained ==
    ~AgentStep =>
        \A id \in Ids(tasksFile) :
            StatusOf(tasksFile, id) # COMPLETE => Under(id) \subseteq Ids(tasksFile')

\* The claimed task and all tasks under it go from the live store to the
\* archive.
TreeMoved ==
    /\ TreeIds \cap Ids(tasksFile') = {}
    /\ \A id \in TreeIds : ArchivedAs(id) # {}

\* C20 as stated: the tasks under a task that is not complete stay, and the
\* finalization of a split task found complete, root or not, moves it and
\* all tasks under it to the archive.
C20_Original ==
    [][/\ DescendantsRetained
       /\ SplitTaskCompleted => TreeMoved]_vars

\* C20: the tasks under a task that is not complete stay in the live
\* store; the finalization of a split root found complete moves the root and
\* all tasks under it to the archive, and that of a split task that is not
\* a root moves nothing: the task and the tasks under it stay in the live
\* store, and nothing is appended to the archive, until the root is archived.
C20_SplitTreeMovedWithRoot ==
    [][/\ DescendantsRetained
       /\ (SplitTaskCompleted /\ IsRootId(task_id)) => TreeMoved
       /\ (SplitTaskCompleted /\ ~IsRootId(task_id)) =>
             /\ TreeIds \subseteq Ids(tasksFile')
             /\ doneFile' = doneFile]_vars

\* The split task 1.1 was found complete and is still in the live store
\* with the task 1.1.1 under it, nothing being archived.
C20_Witness ==
    /\ POLLING /\ doneFile = <<>> /\ Len(tasksFile) = 3
    /\ StatusOf(tasksFile, Id1_1) = COMPLETE
    /\ "commit" \in DOMAIN get_task_by_id(tasksFile, Id1_1)
    /\ StatusOf(tasksFile, Id1_1_1) = COMPLETE

\* The split root 1 was found complete and is archived with 1.1 and 1.1.1.
C20_WitnessRoot ==
    /\ POLLING /\ tasksFile = <<>>
    /\ Ids(doneFile) = {Id1, Id1_1, Id1_1_1}

(***************************************************************************)
(* Claims about the stop sentinel and the ways main stops.                 *)
(***************************************************************************)
\* what main holds of the store, of the agent and of git
Engaged == <<snap, sel, tasksFile, doneFile, retryVars, gitVars, waiting_logged, ideaDefined>>

\* C21: from a poll that finds .stop, main deletes the file and stops: it
\* reads no tasks, selects and claims none, calls no agent and leaves both
\* task files and git alone; and .stop is deleted by no other step than
\* this one, so by none during a call of the agent nor between a claim and
\* the end of its finalization.
C21_SentinelAtPollOnly ==
    [][/\ (pc = "poll" /\ stopFile) =>
              /\ pc' \in {"poll", "stopped"}
              /\ pc' = "stopped" => ~stopFile'
              /\ pc' = "poll" => stopFile'
              /\ UNCHANGED Engaged
       /\ (stopFile /\ ~stopFile') => (pc = "poll" /\ pc' = "stopped")]_vars

\* main has stopped on .stop (a daemon without console stops on nothing
\* else) with a pending task in the store that it did not claim.
C21_Witness ==
    /\ pc = "stopped" /\ daemon /\ ~console /\ ~stopFile
    /\ snap = <<>> /\ rpc = "idle"
    /\ \E i \in DOMAIN tasksFile : tasksFile[i].status = PENDING

\* C22: a daemon stops only from a poll that finds .stop or, with a console,
\* finds console_quit set: not when it has nothing to do and not when a call
\* of the agent has failed.
C22_DaemonStopsOnSignalOnly ==
    [][(daemon /\ pc # "stopped" /\ pc' = "stopped") =>
           (pc = "poll" /\ (stopFile \/ (console /\ console_quit)))]_vars

\* A daemon polls on, waiting, after a call of the agent returned
\* token_limit to it.
C22_Witness == daemon /\ surfaced /\ waiting_logged /\ pc = "poll"

(***************************************************************************)
(* Claims about the idle handling.                                         *)
(***************************************************************************)
\* the step is the return of a completion check to main
CheckReturned == pc = "call" /\ prompt.kind = "check" /\ pc' # "call"

\* C23: not a daemon, no task to select, no user input and idea.md filled
\* in: when the completion check returns, main stops exactly if the agent
\* replied PROJECT_COMPLETE and the reloaded tasks.jsonl holds no task, and
\* polls again if the reloaded tasks.jsonl holds a task.
C23_StopsOnReportedCompletion ==
    [][CheckReturned =>
           /\ pc' = "stopped" <=> (answer' = "PROJECT_COMPLETE" /\ Len(tasksFile') = 0)
           /\ Len(tasksFile') > 0 => pc' = "poll"]_vars

\* C23, for the checks that did not end on token_limit alone: main stops
\* only after the agent replied PROJECT_COMPLETE.
C23_StopsOnReportOnly ==
    [][(CheckReturned /\ ~surfaced' /\ pc' = "stopped") =>
           answer' = "PROJECT_COMPLETE"]_vars

\* a poll with no task to select and no user input, idea.md filled in, no
\* task in tasks.jsonl and nothing archived
NeverStarted ==
    /\ PollOn /\ Idle /\ drained_input = <<>>
    /\ ideaDefined /\ Len(tasksFile) = 0 /\ Len(doneFile) = 0

\* the step is one of the user
UserActs == pc' = pc /\ userVars' # userVars /\ tasksFile' = tasksFile

\* the step writes tasks.jsonl from the poll and polls again
Synthesized == pc = "poll" /\ pc' = "poll" /\ tasksFile' # tasksFile

\* C24: from a poll with no task to select and no user input, idea.md being
\* filled in, tasks.jsonl holding no task and nothing being archived, main
\* writes the one pending task "0" and polls again; and it writes the
\* bootstrap task in no poll where tasks.jsonl holds a task or
\* tasks-done.jsonl a record.
C24_BootstrapWhenNeverStarted ==
    [][/\ NeverStarted => (UserActs \/ (tasksFile' = bootstrap /\ pc' = "poll"))
       /\ Synthesized =>
              /\ Len(tasksFile) = 0 /\ Len(doneFile) = 0
              /\ tasksFile' = bootstrap]_vars

\* C24, its second half alone
C24_NeverOverTasks ==
    [][Synthesized =>
           /\ Len(tasksFile) = 0 /\ Len(doneFile) = 0
           /\ tasksFile' = bootstrap]_vars

(***************************************************************************)
(* Claims about the user's messages.                                       *)
(***************************************************************************)
IsPrefix(s, t) == Len(s) <= Len(t) /\ SubSeq(t, 1, Len(s)) = s

\* the step takes a message out of the console queue or out of the inbox
Drained ==
    \/ ~IsPrefix(console_input_queue, console_input_queue')
    \/ ~IsPrefix(inbox, inbox')

\* the start of the idle handling and the start of an iteration
AtDrainPoint == (PollOn /\ Idle) \/ (pc = "iterate" /\ iterations < MAX_ITERATIONS)

\* C25: main takes messages out of the console queue and the inbox only at
\* the start of the idle handling and at the start of an iteration of the
\* task loop, handing all of them to the agent it calls next; while a call
\* of the agent is in progress both only grow, so a line queued then is
\* still queued when main next comes to one of the two points.
C25_DrainedAtSafePointsOnly ==
    [][/\ Drained =>
              /\ AtDrainPoint
              /\ pc' = "call" /\ prompt'.kind \in {"input", "task"}
              /\ prompt'.user_input = drained_input
              /\ inbox' = <<>>
       /\ pc = "call" =>
              /\ IsPrefix(console_input_queue, console_input_queue')
              /\ IsPrefix(inbox, inbox')]_vars

\* A line queued after the first iteration of a task had read the queue
\* (while the agent ran, or just after) has been handed to the agent by the
\* second iteration.
C25_Witness ==
    /\ console /\ pc = "call" /\ rpc = "run"
    /\ prompt.kind = "task" /\ iterations = 2
    /\ prompt.user_input # <<>> /\ console_input_queue = <<>>

\* A line is in the queue while the agent runs.
C25_WitnessQueued ==
    /\ console /\ pc = "call" /\ rpc = "run" /\ console_input_queue # <<>>

(***************************************************************************)
(* Claims about the files under two processes.                             *)
(***************************************************************************)
LiveContent == Content(disk.TASKS_FILE)

\* read_tasks has returned
ReadReturned == reader.pc = "idle" /\ reader.n > 0

\* C26: tasks.jsonl is never seen half written: whenever what the path
\* tasks.jsonl holds changes, the step is the rename of the temporary file
\* over it, the temporary file holding in full the tasks being written,
\* for the bootstrap task as for the lists handed to write_tasks; and what
\* read_tasks returns is one of the contents written in full.
C26_ReplacedByRenameOnly ==
    [][/\ LiveContent' # LiveContent =>
              /\ writer.pc = "rename" /\ writer'.pc = "idle"
              /\ LiveContent' = writer.tasks
       /\ ReadReturned' => reader'.tasks \in WholeContents]_vars

\* C26, what readers see alone: read_tasks returns a content written in
\* full, and the file a reader holds open is never half written.
C26_ReadersSeeWhole ==
    /\ ReadReturned => reader.tasks \in WholeContents
    /\ reader.f # NoFile => Content(reader.f) \in WholeContents

\* C30: read_tasks under its shared lock and write_tasks under its exclusive
\* lock exclude each other: while the reader holds its lock on the file
\* that tasks.jsonl names, no step replaces or changes that file, and while
\* the writer holds its lock, the reader reads no line.
C30_LocksSerialize ==
    [][/\ (disk.LOCK_SH # NoFile /\ disk.LOCK_SH = disk.TASKS_FILE) =>
              /\ disk'.TASKS_FILE = disk.TASKS_FILE
              /\ LiveContent' = LiveContent
       /\ disk.LOCK_EX # NoFile => reader'.tasks = reader.tasks]_vars

\* C30, its first half alone
C30_NoReplaceUnderSharedLock ==
    [][(disk.LOCK_SH # NoFile /\ disk.LOCK_SH = disk.TASKS_FILE) =>
           disk'.TASKS_FILE = disk.TASKS_FILE]_vars

\* C30, its second half alone
C30_NoReadUnderExclusiveLock ==
    [][(disk.LOCK_EX # NoFile /\ reader.pc = "read") => reader'.tasks = reader.tasks]_vars

\* C30, as states: the two locks are never held at once
C30_NeverBothLocks == ~(disk.LOCK_EX # NoFile /\ disk.LOCK_SH # NoFile)

(***************************************************************************)
(* Claims about the one task at work.                                      *)
(***************************************************************************)
ActiveAt == {i \in DOMAIN tasksFile : tasksFile[i].status = ACTIVE}

\* C27: tasks.jsonl never holds two active tasks, the agent setting no
\* status to active; and from the selection of a task to the end of its
\* finalization no other task than the selected one is active, so that main
\* claims no task while another task it claimed is still active.
C27_OneActiveTask ==
    /\ Cardinality(ActiveAt) <= 1
    /\ sel # NotCalled => \A i \in ActiveAt : tasksFile[i].id = task_id

\* A poll that found the task claimed before still active, and a pending
\* task beside it, has selected the active one again.
C27_Witness ==
    /\ pc = "claim" /\ sel.task.status = ACTIVE
    /\ \E j \in DOMAIN tasksFile : tasksFile[j].status = PENDING

(***************************************************************************)
(* Claims about run_claude.                                                *)
(***************************************************************************)
\* run_claude is waiting for a subprocess that still runs
Waiting == run.pc \in {"wait", "tail"} /\ run.process = "running"

\* C28: no call of run_claude waits for a running subprocess beyond
\* CLAUDE_TIMEOUT, with the session transcript found and tailed as without
\* it; a call that has waited that long goes on to terminate the subprocess
\* and returns the timeout error.
C28_TimeoutOnBothPaths ==
    [][/\ Waiting => run.clock <= CLAUDE_TIMEOUT
       /\ (Waiting /\ run.clock >= CLAUDE_TIMEOUT /\ run'.pc # run.pc) =>
              run'.pc = "grace"
       /\ run'.pc = "returned" /\ run.pc = "grace" =>
              /\ run'.process # "running"
              /\ exit_code' = 1 /\ error_type' = TIMEOUT]_vars

\* C28 for the calls that found no session transcript alone
C28_TimeoutWithoutTranscript ==
    [][~run.new_session =>
           /\ Waiting => run.clock <= CLAUDE_TIMEOUT
           /\ (Waiting /\ run.clock >= CLAUDE_TIMEOUT /\ run'.pc # run.pc) =>
                  run'.pc = "grace"
           /\ run'.pc = "returned" /\ run.pc = "grace" =>
                  /\ run'.process # "running"
                  /\ exit_code' = 1 /\ error_type' = TIMEOUT]_vars

\* run_claude has returned the timeout error of a call without transcript.
C28_WitnessWithoutTranscript ==
    run.pc = "returned" /\ ~run.new_session /\ run.clock >= CLAUDE_TIMEOUT
    /\ exit_code = 1 /\ error_type = TIMEOUT

(***************************************************************************)
(* Claims about stopping, every run of the agent ending.                   *)
(***************************************************************************)
\* C29: once .stop exists main comes to stop, every run of the agent and
\* every sleep ending; on the way it begins nothing new: a poll that finds
\* .stop selects no task and calls no agent, so that at most the task cycle
\* in progress, of at most MAX_ITERATIONS iterations, is finished first.
C29_SentinelStops ==
    /\ stopFile ~> pc = "stopped"
    /\ [][/\ (stopFile /\ pc = "poll") => pc' \in {"poll", "stopped"}
          /\ stopFile => iterations' <= MAX_ITERATIONS]_vars

\* .stop was created while the agent worked on a task.
C29_WitnessMidCycle == stopFile /\ pc = "call" /\ prompt.kind = "task"

\* A daemon has archived a task and then stopped on .stop.
C29_Witness ==
    /\ pc = "stopped" /\ ~stopFile /\ daemon /\ ~console
    /\ Len(doneFile) > 0

(***************************************************************************)
(* Claims about a task whose record is gone.                               *)
(***************************************************************************)
\* tasks.jsonl holds no record of the claimed task.
Gone == positions(tasksFile, task_id) = {}

\* run_claude_with_retry returns exit code 0 to the task loop.
WorkSucceeded == pc = "call" /\ prompt.kind = "task" /\ rpc' = "idle" /\ exit_code' = 0

\* C31: when the agent has exited 0 and the reloaded store holds no record
\* of the claimed task, the task loop is left without task_done, and the
\* finalization that follows calls no agent, makes no commit, appends nothing
\* to the archive and writes nothing to the live store: it checks out the
\* base branch and leaves the task branch.
C31_DisappearedTaskAborts ==
    [][/\ (WorkSucceeded /\ Gone') => (pc' = "finalize" /\ ~task_done')
       /\ (pc = "finalize" /\ Gone) =>
             /\ pc' \in {"finalize", "poll"}
             /\ rpc' = "idle"
             /\ UNCHANGED <<tasksFile, doneFile, head, branches>>
             /\ pc' = "poll" => (checkedOut' = base_branch /\ task_id \in branches')]_vars

\* main is back at the poll on the base branch, and the branch of a task
\* that is in neither file is still there.
C31_Witness ==
    /\ POLLING /\ checkedOut = base_branch
    /\ \E b \in branches : b \notin (Ids(tasksFile) \cup Ids(doneFile))

(***************************************************************************)
(* Claims about the number of runs of one call of run_claude_with_retry.   *)
(***************************************************************************)
\* C32: in one call of run_claude_with_retry the first run of the agent is
\* at attempt 0, a run ends in a return or a sleep, and the run after a
\* sleep is at the next attempt whatever the error slept on, rate_limit
\* included; after the sleep of attempt len(API_RETRY_DELAYS) the call
\* returns.  So the k-th run is at attempt k - 1 <= 4: at most 5 runs, and
\* whatever the outcomes of the runs the call returns.
C32_AtMostFiveRuns ==
    /\ [][/\ attempt' \in 0..last_attempt /\ last_attempt + 1 = 5
          /\ (rpc = "idle" /\ rpc' # "idle") => (rpc' = "run" /\ attempt' = 0)
          /\ rpc = "run" => (rpc' \in {"ret", "sleep"} /\ attempt' = attempt)
          /\ (rpc = "sleep" /\ attempt < last_attempt) =>
                 (rpc' = "run" /\ attempt' = attempt + 1)
          /\ (rpc = "sleep" /\ attempt = last_attempt) =>
                 (rpc' = "ret" /\ exit_code' = exit_code /\ error_type' = error_type)
          /\ rpc = "ret" => rpc' = "idle"]_vars
    /\ (rpc = "run") ~> (rpc = "ret")

\* The fifth run of a call was rate limited, and after the sleep the call
\* returned that failure.
C32_Witness ==
    /\ rpc = "ret" /\ attempt = last_attempt
    /\ exit_code # 0 /\ error_type = RATE_LIMIT

\* The fourth run of a call comes after a rate limit, an API error and an
\* unknown error: one attempt each.
C32_WitnessMixed ==
    /\ rpc = "sleep" /\ attempt = 3 /\ error_type = RATE_LIMIT

(***************************************************************************)
(* Claims about what a restart finds in the live store.                    *)
(***************************************************************************)
\* The cycle of a task claimed for verification ends, by finalization or by
\* a kill, and leaves the task active in the live store.
VerifyCycleLeftActive ==
    /\ pc \in {"branch", "iterate", "call", "finalize"} /\ sel.mode = "verify"
    /\ POLLING'
    /\ StatusOf(tasksFile', task_id) = ACTIVE

\* C33: the claim of a split task for verification writes it as active;
\* when its cycle ends and it is still active (the ceiling, token_limit, a
\* kill), it is what get_next_task returns from the store as it is left, with
\* mode work; the store stays as it is left until main goes on from a poll,
\* and a poll that finds an active task claims an active task with mode
\* work: the mode verify of the claim is not kept.
C33_VerifyResumedAsWork ==
    [][/\ VerifyClaim => StatusOf(tasksFile', task_id) = ACTIVE
       /\ VerifyCycleLeftActive =>
             /\ get_next_task(tasksFile').task.id = task_id
             /\ get_next_task(tasksFile').mode = "work"
       /\ (POLLING /\ with_status(tasksFile, ACTIVE) # {}) =>
             /\ tasksFile' = tasksFile
             /\ pc' \in {"poll", "claim", "stopped"}
             /\ CLAIMED' => /\ sel' = get_next_task(tasksFile)
                            /\ sel'.task.status = ACTIVE
                            /\ sel'.mode = "work"]_vars

\* The split task 1, claimed for verification with its child complete, was
\* left active when its cycle ended (a kill, or the ceiling), its branch
\* staying, and the poll that followed has selected it with mode work.
C33_Witness ==
    /\ CLAIMED /\ sel.mode = "work" /\ task_id = Id1 /\ sel.task.status = ACTIVE
    /\ StatusOf(snap, Id1_1) = COMPLETE
    /\ incidents = 1 /\ ~surfaced /\ branches = {Id1}

\* The same after token_limit came back to the task loop of the
\* verification.
C33_WitnessTokenLimit ==
    /\ CLAIMED /\ sel.mode = "work" /\ task_id = Id1 /\ sel.task.status = ACTIVE
    /\ StatusOf(snap, Id1_1) = COMPLETE
    /\ surfaced

\* The positions of the live store that hold a complete root task no cycle
\* of main is at: main was killed after the agent wrote complete and before
\* finalization had rewritten the store.
Orphans ==
    {i \in DOMAIN tasksFile :
        /\ tasksFile[i].status = COMPLETE /\ IsRootId(tasksFile[i].id)
        /\ sel.task.id # tasksFile[i].id}

\* C34: a complete root task that is in the live store with no cycle of
\* main at it stays so for ever: no poll selects it, so no step changes or
\* removes its record, deletes or merges a branch for it or appends a record
\* of it to the archive.
C34_CompleteRootOrphaned ==
    [][\A i \in Orphans :
          LET id == tasksFile[i].id
          IN  /\ sel'.task.id # id
              /\ \E j \in DOMAIN tasksFile' : tasksFile'[j] = tasksFile[i]
              /\ \A j \in DOMAIN doneFile' : doneFile'[j].id = id => j \in DOMAIN doneFile
              /\ id \in branches <=> id \in branches']_vars

\* Killed after the agent completed the bootstrap task and added the task 1,
\* main has started again and claimed the task 1; the task 0 is complete in
\* the live store and not archived.
C34_Witness ==
    /\ BRANCHED /\ task_id = Id1
    /\ StatusOf(tasksFile, Id0) = COMPLETE /\ Id0 \notin Ids(doneFile)

\* Killed in archive_task_tree after the append, main has started again and
\* runs the completion check: the task 0 is in the archive and complete in
\* the live store.
C34_WitnessArchived ==
    /\ IdleCall /\ prompt.kind = "check"
    /\ StatusOf(tasksFile, Id0) = COMPLETE /\ Id0 \in Ids(doneFile)

(***************************************************************************)
(* Claims about the records of the archive.                                *)
(***************************************************************************)
\* the positions of the archive that the step appends
Appended == (DOMAIN doneFile') \ (DOMAIN doneFile)

\* C35: every record that a step appends to the archive has the status
\* complete, and the archive is only appended to: when the finalization of
\* a complete root archives it, every task under it in the live store is
\* complete, none is pending, active or split.  The agent completes the task
\* it works on or splits it into direct subtasks, pending; this holds also
\* for the other things the agent does here (new root tasks, a split without
\* subtasks, a lost record).
C35_ArchivedAreComplete ==
    [][/\ Len(doneFile') >= Len(doneFile)
       /\ SubSeq(doneFile', 1, Len(doneFile)) = doneFile
       /\ \A j \in Appended : doneFile'[j].status = COMPLETE
       /\ (Finalizing /\ ClaimedIsComplete /\ IsRootId(task_id)) =>
             /\ Appended # {}
             /\ \A d \in Under(task_id) : StatusOf(tasksFile, d) = COMPLETE]_vars

\* The root 1, split into 1.1 and 1.2, has been verified and archived with
\* both.
C35_Witness ==
    /\ POLLING /\ tasksFile = <<>>
    /\ Ids(doneFile) = {Id1, Id1_1, Id1_2}
    /\ \A j \in DOMAIN doneFile : doneFile[j].status = COMPLETE

(***************************************************************************)
(* Claims about a squash merge that makes no commit.                       *)
(***************************************************************************)
\* The finalization of a task found complete in which git merge --squash or
\* git commit failed: the head of the base branch is where it was.
MergeFailed == Finalizing /\ ClaimedIsComplete /\ head' = head

\* C36: the finalization of a complete task goes the same way when the
\* squash merge makes no commit: the task branch is deleted, and a root is
\* archived with its tree, any other task is given the commit field, the
\* hash recorded being the head of the base branch as it was before the
\* finalization, which holds nothing of the task's work.
C36_MergeOutcomeUnchecked ==
    [][MergeFailed =>
          /\ task_id \notin branches' /\ checkedOut' = base_branch
          /\ IF IsRootId(task_id)
             THEN /\ task_id \notin Ids(tasksFile')
                  /\ ArchivedAs(task_id) \ (DOMAIN doneFile) # {}
                  /\ \A j \in ArchivedAs(task_id) \ (DOMAIN doneFile) :
                         doneFile'[j].commit = head /\ doneFile'[j].status = COMPLETE
             ELSE /\ doneFile' = doneFile
                  /\ LET current == get_task_by_id(tasksFile', task_id)
                     IN  /\ "commit" \in DOMAIN current
                         /\ current.commit = head /\ current.status = COMPLETE]_vars

\* The bootstrap task is archived with the hash of the commit the
\* repository was at before any task, and its branch is gone.
C36_Witness ==
    /\ POLLING /\ head = 0 /\ branches = {}
    /\ \E j \in DOMAIN doneFile : doneFile[j].id = Id0 /\ doneFile[j].commit = 0

\* The task 1.1 is in the live store, complete, with the hash of the commit
\* the base branch was at when the task was claimed.
C36_WitnessNonRoot ==
    /\ POLLING /\ head = 0 /\ branches = {}
    /\ StatusOf(tasksFile, Id1_1) = COMPLETE
    /\ "commit" \in DOMAIN get_task_by_id(tasksFile, Id1_1)
    /\ get_task_by_id(tasksFile, Id1_1).commit = 0

(***************************************************************************)
(* Claims about the console queue under the reader thread and main.        *)
(***************************************************************************)
RECURSIVE Flat(_)
\* the messages of the texts, one text after the other
Flat(texts) == IF texts = <<>> THEN <<>> ELSE Head(texts) \o Flat(Tail(texts))

\* the messages the reader thread has appended so far, in the order of the
\* appends
AppendedSoFar ==
    [i \in 1..(IF con.reader \in {"lock", "locked"} THEN con.typed - 1 ELSE con.typed) |-> i]

\* the messages get_console_input has taken from the queue and not yet
\* returned
InHand == IF con.main = "cleared" THEN con.result ELSE <<>>

\* Every message appended is in what the calls of get_console_input have
\* returned or still in the queue, once and in the order of the appends; and
\* what a call returned is in the prompt of one call of
\* run_claude_with_retry, or about to be.
OnceInOrder ==
    /\ Flat(con.returned) \o InHand \o con.console_input_queue = AppendedSoFar
    /\ \A k \in DOMAIN con.returned : con.returned[k] # <<>>
    /\ con.prompts \o (IF con.main = "got" THEN <<con.result>> ELSE <<>>) = con.returned

\* C37 as stated: every message appended is returned by exactly one call of
\* get_console_input, so none is left in the queue when main has left its
\* loop.
C37_Original ==
    /\ OnceInOrder
    /\ con.main = "stopped" => Flat(con.returned) = AppendedSoFar

\* C37: under every interleaving of the reader thread and main, a message
\* appended to the queue is returned by at most one call of
\* get_console_input, by the first one that takes the lock after the append,
\* with the messages in the order of the appends; a message that is in the
\* queue when main leaves its loop is returned by no call.  What a call
\* returns is put in the prompt of exactly one call of run_claude_with_retry,
\* and the return of that call, failed or not, puts nothing back in the
\* queue.
C37_ReturnedAtMostOnce ==
    /\ []OnceInOrder
    /\ [][/\ (con.main = "locked" /\ con'.main = "joined") =>
                 con'.result = con.console_input_queue
          /\ (con.main = "call" /\ con'.main # "call") =>
                 /\ con'.console_input_queue = con.console_input_queue
                 /\ con'.prompts = con.prompts
          /\ con.main = "stopped" => con' = con]_vars

\* Two calls of get_console_input have returned: the first the message 1,
\* the second the messages 2 and 3 typed since, and each went into a prompt.
C37_Witness ==
    /\ con.main = "poll"
    /\ con.returned = <<<<1>>, <<2, 3>>>>
    /\ con.prompts = con.returned

\* main has left its loop on the console's end of input, and the message
\* typed before it is still in the queue.
C37_WitnessLeft ==
    /\ con.main = "stopped" /\ con.console_quit
    /\ con.console_input_queue = <<1>> /\ con.returned = <<>>

(***************************************************************************)
(* Claims about the records archive_task_tree takes out of the live store. *)
(***************************************************************************)
\* id is r, or r followed by a dot and more
InTree(id, r) ==
    \/ id = r
    \/ /\ Len(id) > Len(r)
       /\ \A k \in 1..Len(r) : id[k] = r[k]
       /\ id[Len(r) + 1] = "."

Archived == pc = "archived"

\* C38: archiving root r removes from the live store exactly the records
\* whose id is r or starts with r followed by a dot; every other record,
\* "10" and "10.1" for r = "1" included, stays in the live store unchanged
\* and in the same relative order, and is not appended to the archive.
C38_ArchiveRemovesExactlyTheTree ==
    Archived =>
        /\ tasksFile = SelectSeq(snap, LAMBDA t : ~InTree(t.id, task_id))
        /\ \A k \in DOMAIN doneFile : InTree(doneFile[k].id, task_id)

\* Root "1" and "1.1" have been archived, "10" and "10.1" are still live.
C38_Witness ==
    /\ Archived /\ task_id = Id1
    /\ Id1_1 \in Ids(snap)
    /\ Ids(tasksFile) = {Id10, Id10_1}
    /\ Ids(doneFile) = {Id1, Id1_1}

(***************************************************************************)
(* Claims about a live store that holds records and no selectable task.    *)
(***************************************************************************)
\* tasks.jsonl holds a record and get_next_task selects none
Unselectable == Len(tasksFile) > 0 /\ Idle

\* not a daemon, idea.md filled in
Interactive == ~daemon /\ ideaDefined

NoStopSignal == ~stopFile /\ ~(console /\ console_quit)

\* the step is main calling run_claude_with_retry with the completion check
CheckCalled == pc = "poll" /\ pc' = "call" /\ prompt'.kind = "check"

\* the step is the return of a completion check whose last run of the agent
\* exited 0 and left tasks.jsonl as it was
CheckReturnedUnchanged ==
    CheckReturned /\ answer' # "none" /\ tasksFile' = tasksFile

\* C39: not a daemon, idea.md filled in, no stop signal, tasks.jsonl holding
\* records but none that get_next_task selects: main does not stop from the
\* poll; the poll (no user input waiting) calls the completion check; and
\* when the agent exits 0 and leaves tasks.jsonl as it was, main polls
\* again, in the same situation.
C39_UnselectableStoreNeverStops ==
    [][(Interactive /\ Unselectable) =>
           /\ (pc = "poll" /\ NoStopSignal) => pc' # "stopped"
           /\ (pc = "poll" /\ NoStopSignal /\ drained_input = <<>>) =>
                  (UserActs \/ CheckCalled)
           /\ CheckReturnedUnchanged =>
                  /\ pc' = "poll"
                  /\ Interactive' /\ Unselectable'
                  /\ stopFile' = stopFile /\ console_quit' = console_quit]_vars

\* Main is back at the poll after a completion check to which the agent
\* answered PROJECT_COMPLETE, the only record being a split task without
\* subtasks.
C39_Witness ==
    /\ pc = "poll" /\ Interactive /\ NoStopSignal
    /\ answer = "PROJECT_COMPLETE"
    /\ tasksFile = <<Task(Id1, SPLIT)>>
    /\ get_children(tasksFile, Id1) = <<>>

====
